---- MODULE Spec2Model ----
(***************************************************************************)
(* Model of the realtime room orchestrator (backend/app/runtime*.py): one  *)
(* room instance, its connections, its phase state machine and its timers. *)
(*                                                                         *)
(* Every operation of the room runs under room.lock, so one operation is   *)
(* one action.  The room is a record whose fields carry the names of       *)
(* RoomRuntime; the functions of the source that mutate the room are       *)
(* operators from a room record to a room record, composed in the order    *)
(* the source calls them.  Wall-clock time is abstracted: a deadline field *)
(* (question_ends_at, ...) is TRUE when it holds a deadline, FALSE when    *)
(* it is None,                                                             *)
(* and an armed timer may finish sleeping at any moment.                   *)
(***************************************************************************)
EXTENDS Integers, Sequences, FiniteSets, TLC

\* ------------------------------------------------------------------ bounds
MaxPeers == 4
MaxHandoffs == 1
MaxStateVersion == 12
MaxGameVersion == 9
MaxLobbyPeers == 3
MaxLobbyHandoffs == 2
MaxLobbyVersion == 5
MaxLockPeers == 4
MaxLockVersion == 9
MaxTicks == 5
MaxChat == 3
MaxVotePeers == 5
MaxVoteVersion == 12
MaxReclaimPeers == 4
MaxReclaimVersion == 6
MaxRejectVersion == 7
MaxPersistVersion == 6
MaxLatePeers == 4
MaxLateVersion == 9
MaxPromoteVersion == 8
MaxPassVersion == 40
MaxStoreVersion == 3
MaxStoreTicks == 4
MaxPauseVersion == 12
MaxLockRounds == 2
MaxChaosTicks == 2
MaxRunVersion == 40
MaxCancelQuestions == 2

\* --------------------------------------------------------------- constants
\* config.py 40 reads MAX_PLAYERS from the environment (20 when it is not set);
\* the rooms here are those of a deployment that sets it to this
MAX_PLAYERS == 5
QuestionCount == 5

Peers == 1..(IF MaxPeers >= MaxVotePeers THEN MaxPeers ELSE MaxVotePeers)
\* a websocket: the peer it serves and how many websockets served that peer before
WebSocket(peer_id, n) == <<peer_id, n>>
NoPeer == 0
NoSocket == <<>>
NoTask == 0
NoToken == <<>>
NoIdentity == "none"
NoTeam == "none"
NoPause == "none"
\* room.lock when no task holds it
NoHolder == [kind |-> "none", id |-> <<>>, ran |-> TRUE]

TEAM_KEYS == <<"A", "B">>
Teams == {"A", "B"}
GAME_MODES == {"classic", "ffa", "chaos"}
IdentityKeys == {"acct:7", "guest:abcdefgh"}
HostTokenInputs == {"", "host-secret", "wrong-secret"}
ClientTokens == {<<"client-made-token">>}
\* the room password a client sends in its join frame
RoomPassword == "room-secret"
\* how far the clock goes in one step, in milliseconds
TickSteps == {60, 240, 9900}

TimerKeys == {"question", "reveal", "teamReveal", "captainVote", "captainAuto",
              "teamNaming", "hostReconnect"}

hash_secret(value) == <<"sha256", value>>
generate_secret(n) == <<"secret", n>>

Min(S) == CHOOSE x \in S : \A y \in S : x <= y
Max2(a, b) == IF a >= b THEN a ELSE b
LastOf(s) == s[Len(s)]
Drop(f, k) == [x \in (DOMAIN f) \ {k} |-> f[x]]
Put(f, k, v) == [x \in (DOMAIN f) \cup {k} |-> IF x = k THEN v ELSE f[x]]
EmptyMap == [x \in {} |-> 0]

\* random.choice(items): any element; the caller's oracle names the one drawn.
random_item(items, want) == IF want \in items THEN want ELSE Min(items)

\* ------------------------------------------------------------------ state
VARIABLES
    room,      \* the RoomRuntime of the registry, with its asyncio timer tasks
    sockets,   \* the websockets whose handler has not finished yet
    op         \* the operation that produced this state

vars == <<room, sockets, op>>

PlayerIds(r) == DOMAIN r.players

PlayerConnection(team, is_host, websocket, is_spectator, identity_key, player_token) ==
    [team |-> team, is_host |-> is_host, websocket |-> websocket,
     is_spectator |-> is_spectator, identity_key |-> identity_key,
     player_token |-> player_token, is_captain |-> FALSE]

RoomRuntime(game_mode) ==
    [game_mode |-> game_mode,
     question_count |-> QuestionCount,
     players |-> EmptyMap,
     player_tokens |-> EmptyMap,
     host_peer_id |-> NoPeer,
     host_token_hash |-> hash_secret("host-secret"),
     room_password_hash |-> "",
     phase |-> "lobby",
     current_question_index |-> -1,
     active_team |-> "A",
     question_ends_at |-> FALSE,
     team_reveal_ends_at |-> FALSE,
     captain_vote_ends_at |-> FALSE,
     team_naming_ends_at |-> FALSE,
     reveal_ends_at |-> FALSE,
     host_reconnect_ends_at |-> FALSE,
     paused_state |-> NoPause,
     active_answer |-> NoPeer,
     answer_submissions |-> {},
     last_reveal |-> "none",
     captains |-> [t \in Teams |-> NoPeer],
     captain_votes |-> [t \in Teams |-> EmptyMap],
     captain_ballots |-> [t \in Teams |-> EmptyMap],
     captain_vote_ready_teams |-> [t \in Teams |-> FALSE],
     team_naming_ready_teams |-> [t \in Teams |-> FALSE],
     state_version |-> 1,
     timers |-> [k \in TimerKeys |-> NoTask],
     \* room.lock: the task that holds it, and whether that task has begun its operation
     lock |-> NoHolder,
     \* host_identity of pause_for_host_reconnect, kept by its after_reconnect_timeout
     disconnected_host_identity |-> NoIdentity,
     \* the event loop's side of the room: live timer tasks, and the registry entry
     tasks |-> {},
     evicted |-> FALSE,
     peers_made |-> 0,
     handoffs |-> 0,
     \* what the room has put on the wire: for the websocket of each peer the
     \* stateVersion of its last state-sync frame before the current operation and
     \* the frames of the current operation; the same for the broadcasts as a whole
     last_frame |-> [p \in Peers |-> 0],
     frames |-> [p \in Peers |-> <<>>],
     last_broadcast |-> 0,
     broadcasts |-> <<>>,
     \* history of the current operation
     phase_seq |-> 1,
     recorded |-> NoPeer,
     finalized |-> [done |-> FALSE, eligible |-> {}, submitted |-> {}]]

\* ------------------------------------------------------- player selections
\* runtime.py 1758-1772
_team_players(r, team) ==
    {p \in PlayerIds(r) : ~r.players[p].is_host /\ r.players[p].team = team}

_non_host_players(r) == {p \in PlayerIds(r) : ~r.players[p].is_host}

_active_non_host_players(r) ==
    {p \in PlayerIds(r) : ~r.players[p].is_host /\ ~r.players[p].is_spectator}

_active_team_players(r, team) ==
    {p \in PlayerIds(r) : /\ ~r.players[p].is_host
                          /\ ~r.players[p].is_spectator
                          /\ r.players[p].team = team}

\* runtime.py 1795-1808
_answer_eligible_players(r) ==
    IF r.game_mode = "ffa" THEN _active_non_host_players(r)
    ELSE IF r.game_mode = "chaos"
    THEN {p \in _active_non_host_players(r) : r.players[p].team \in Teams}
    ELSE LET captain_peer_id == r.captains[r.active_team] IN
         IF captain_peer_id = NoPeer THEN {}
         ELSE IF captain_peer_id \notin PlayerIds(r) \/ r.players[captain_peer_id].is_host
         THEN {}
         ELSE {captain_peer_id}

\* ------------------------------------------------- version, wire, broadcast
\* The start of an operation: the frames of the previous one become history.
BeginOperation(r) ==
    [r EXCEPT
        !.last_frame = [p \in Peers |->
            IF r.frames[p] # <<>> THEN LastOf(r.frames[p]) ELSE r.last_frame[p]],
        !.frames = [p \in Peers |-> <<>>],
        !.last_broadcast =
            IF r.broadcasts # <<>> THEN LastOf(r.broadcasts) ELSE r.last_broadcast,
        !.broadcasts = <<>>,
        !.recorded = NoPeer,
        !.finalized = [done |-> FALSE, eligible |-> {}, submitted |-> {}],
        !.lock = [r.lock EXCEPT !.ran = TRUE]]

\* A version counter that starts over.
MarkStateChangedWrapping(r) ==
    [r EXCEPT !.state_version = IF r.state_version >= 6 THEN 1 ELSE r.state_version + 1]

\* runtime.py 173-174
_mark_state_changed(r) ==
    [r EXCEPT !.state_version = Max2(1, r.state_version + 1)]

\* One state-sync frame, carrying room.state_version, to the websocket of every player.
_broadcast_state(r) ==
    [r EXCEPT
        !.frames = [p \in Peers |->
            IF p \in PlayerIds(r)
            THEN Append(r.frames[p], Max2(1, r.state_version))
            ELSE r.frames[p]],
        !.broadcasts = Append(r.broadcasts, Max2(1, r.state_version))]

_broadcast_and_persist(r) == _broadcast_state(_mark_state_changed(r))

\* ------------------------------------------------------------------ timers
PendingTasks(r, key) == {t \in r.tasks : t.key = key}

\* A cancel that only forgets the task.
ForgetTimer(r, key) == [r EXCEPT !.timers[key] = NoTask]

\* runtime.py 1711-1715; task.cancel(): a task that sleeps or waits for room.lock
\* ends without running its callback.
_cancel_timer(r, key) ==
    [r EXCEPT
        !.tasks = {t \in r.tasks : ~(t.key = key /\ t.stamp = r.timers[key])},
        !.timers[key] = NoTask]

_clear_timers(r) ==
    _cancel_timer(_cancel_timer(_cancel_timer(_cancel_timer(_cancel_timer(
        _cancel_timer(_cancel_timer(r, "question"), "reveal"), "teamReveal"),
        "captainVote"), "captainAuto"), "teamNaming"), "hostReconnect")

_schedule_timer(r, key, callback, teams_for_auto) ==
    LET c == _cancel_timer(r, key) IN
    [c EXCEPT
        !.timers[key] = c.phase_seq,
        !.tasks = c.tasks \cup {[key |-> key, stamp |-> c.phase_seq, callback |-> callback,
                                 teams |-> teams_for_auto, st |-> "sleeping"]}]

SetPhase(r, phase) == [r EXCEPT !.phase = phase, !.phase_seq = r.phase_seq + 1]

\* --------------------------------------------------------------- captains
\* runtime.py 1749-1756
_reset_captain_state(r) ==
    [r EXCEPT
        !.captain_votes = [t \in Teams |-> EmptyMap],
        !.captain_ballots = [t \in Teams |-> EmptyMap],
        !.captains = [t \in Teams |-> NoPeer],
        !.captain_vote_ready_teams = [t \in Teams |-> FALSE],
        !.team_naming_ready_teams = [t \in Teams |-> FALSE],
        !.players = [p \in PlayerIds(r) |-> [r.players[p] EXCEPT !.is_captain = FALSE]]]

\* runtime.py 1921-1929
_apply_captain_flags(r) ==
    [r EXCEPT !.players = [p \in PlayerIds(r) |->
        [r.players[p] EXCEPT !.is_captain =
            IF r.players[p].is_host THEN FALSE
            ELSE \/ (r.players[p].team = "A" /\ r.captains["A"] = p)
                 \/ (r.players[p].team = "B" /\ r.captains["B"] = p)]]]

\* runtime.py 1897-1919
_choose_captain_by_votes(r, team, want) ==
    LET players == _team_players(r, team)
        votes == r.captain_votes[team]
        max_votes == CHOOSE m \in {votes[c] : c \in DOMAIN votes} :
                        \A c \in DOMAIN votes : votes[c] <= m
        leaders == {c \in DOMAIN votes : votes[c] = max_votes /\ c \in players}
    IN  IF players = {} THEN NoPeer
        ELSE IF DOMAIN votes = {} THEN random_item(players, want)
        ELSE IF leaders = {} THEN random_item(players, want)
        ELSE random_item(leaders, want)

SumVotes(votes) ==
    LET RECURSIVE Sum(_)
        Sum(S) == IF S = {} THEN 0
                  ELSE LET c == CHOOSE x \in S : TRUE
                       IN Max2(0, votes[c]) + Sum(S \ {c})
    IN Sum(DOMAIN votes)

\* runtime.py 1931-1932
_team_votes_count(r, team) == SumVotes(r.captain_votes[team])

\* A readiness that counts no ballots.
ReadyWithoutBallots(r, team) ==
    \/ Cardinality(_team_players(r, team)) = 0
    \/ Cardinality(_team_players(r, team)) = 1 /\ r.captains[team] # NoPeer

\* runtime.py 1934-1940
_is_captain_vote_ready_for_team(r, team) ==
    LET members_count == Cardinality(_team_players(r, team)) IN
    IF members_count = 0 THEN TRUE
    ELSE IF members_count = 1 /\ r.captains[team] # NoPeer THEN TRUE
    ELSE _team_votes_count(r, team) >= members_count

\* runtime.py 1942-1943
_are_all_teams_ready(ready_map) == \A t \in Teams : ready_map[t]

RefreshTeam(r, team, rnd) ==
    LET ready == _is_captain_vote_ready_for_team(r, team) IN
    [r EXCEPT
        !.captain_vote_ready_teams[team] = ready,
        !.captains[team] =
            IF ready
            THEN (IF r.captains[team] # NoPeer THEN r.captains[team]
                  ELSE _choose_captain_by_votes(r, team, rnd[team]))
            ELSE NoPeer]

\* runtime.py 1945-1955
_refresh_captain_vote_progress(r, rnd) ==
    _apply_captain_flags(RefreshTeam(RefreshTeam(r, TEAM_KEYS[1], rnd), TEAM_KEYS[2], rnd))

\* runtime.py 1957-1966
_single_member_teams_waiting_captain(r) ==
    IF r.phase # "captain-vote" THEN {}
    ELSE {t \in Teams : /\ ~r.captain_vote_ready_teams[t]
                        /\ Cardinality(_team_players(r, t)) = 1}

\* runtime.py 1968-1972, 2001-2006
_schedule_single_member_auto_captain(r) ==
    LET c == _cancel_timer(r, "captainAuto")
        teams_for_auto == _single_member_teams_waiting_captain(c)
    IN  IF teams_for_auto = {} THEN c
        ELSE _schedule_timer(c, "captainAuto", "auto_pick_single_member_captains",
                             teams_for_auto)

\* runtime.py 2008-2016
_initialize_team_naming_progress(r) ==
    [r EXCEPT !.team_naming_ready_teams = [t \in Teams |->
        IF Cardinality(_team_players(r, t)) = 0 THEN TRUE
        ELSE IF r.game_mode = "classic" THEN r.captains[t] = NoPeer ELSE FALSE]]

\* runtime.py 2106-2113
_reassign_captain_if_needed(r, team, rnd) ==
    IF r.captains[team] # NoPeer THEN r
    ELSE LET players == _team_players(r, team) IN
         _apply_captain_flags(
            [r EXCEPT !.captains[team] =
                IF players = {} THEN NoPeer ELSE random_item(players, rnd[team])])

CleanupVotesTeam(r, team, peer_id) ==
    LET ballots == r.captain_ballots[team]
        votes == r.captain_votes[team]
        previous_candidate == IF peer_id \in DOMAIN ballots THEN ballots[peer_id] ELSE NoPeer
        current_count == IF previous_candidate \in DOMAIN votes
                         THEN votes[previous_candidate] ELSE 0
        next_count == Max2(0, current_count - 1)
        votes1 == IF previous_candidate = NoPeer THEN votes
                  ELSE IF next_count = 0 THEN Drop(votes, previous_candidate)
                  ELSE Put(votes, previous_candidate, next_count)
        ballots1 == Drop(ballots, peer_id)
        votes2 == Drop(votes1, peer_id)
        ballots2 == [v \in {x \in DOMAIN ballots1 : ballots1[x] # peer_id} |-> ballots1[v]]
    IN  [r EXCEPT !.captain_ballots[team] = ballots2, !.captain_votes[team] = votes2]

\* runtime.py 2115-2135
_cleanup_votes_for_player(r, peer_id) ==
    CleanupVotesTeam(CleanupVotesTeam(r, TEAM_KEYS[1], peer_id), TEAM_KEYS[2], peer_id)

\* ------------------------------------------------------------- phase flow
\* runtime.py 2018-2033
_start_question_phase(r) ==
    LET q == [SetPhase(r, "question") EXCEPT
                !.question_ends_at = TRUE,
                !.team_reveal_ends_at = FALSE,
                !.captain_vote_ends_at = FALSE,
                !.team_naming_ends_at = FALSE,
                !.active_answer = NoPeer,
                !.answer_submissions = {},
                !.last_reveal = "none",
                !.reveal_ends_at = FALSE]
    IN  _broadcast_and_persist(_schedule_timer(q, "question", "finalize_question", {}))

\* runtime_question_flow.py 18-369 (the scores and the statistics are left out)
finalize_question(r) ==
    IF r.phase # "question" \/ r.current_question_index < 0 THEN r
    ELSE LET c == _cancel_timer(r, "question") IN
         IF c.current_question_index >= c.question_count THEN c
         ELSE LET f == [SetPhase(c, "reveal") EXCEPT
                          !.finalized = [done |-> TRUE,
                                         eligible |-> _answer_eligible_players(c),
                                         submitted |->
                                            IF c.game_mode = "classic"
                                            THEN (IF c.active_answer = NoPeer THEN {}
                                                  ELSE {c.active_answer})
                                            ELSE c.answer_submissions],
                          !.question_ends_at = FALSE,
                          !.reveal_ends_at = TRUE,
                          !.last_reveal = "answered",
                          !.active_answer = NoPeer,
                          !.answer_submissions = {}]
              IN _broadcast_and_persist(
                    _schedule_timer(f, "reveal", "advance_after_reveal", {}))

\* QuizRuntime._schedule_persist_game_result is not among the sources: it hands the
\* finished game to the result store and leaves the room as it is.
_schedule_persist_game_result(r) == r

\* A last reveal that goes back to the first question instead of the results.
RestartQuiz(r) ==
    _start_question_phase(
        [r EXCEPT !.current_question_index = 0,
                  !.last_reveal = "none",
                  !.active_answer = NoPeer,
                  !.answer_submissions = {}])

EnterResults(r) ==
    _broadcast_and_persist(_schedule_persist_game_result(
        [SetPhase(r, "results") EXCEPT
            !.question_ends_at = FALSE,
            !.active_answer = NoPeer,
            !.answer_submissions = {}]))

\* A reveal that always moves on to the next question, as in chaos.
AdvanceOnePass(r) ==
    IF r.phase # "reveal" THEN r
    ELSE LET c == [_cancel_timer(r, "reveal") EXCEPT !.reveal_ends_at = FALSE] IN
         IF c.current_question_index >= c.question_count - 1 THEN EnterResults(c)
         ELSE _start_question_phase(
                [c EXCEPT !.current_question_index = c.current_question_index + 1,
                          !.last_reveal = "none",
                          !.active_answer = NoPeer,
                          !.answer_submissions = {},
                          !.active_team = "A"])

\* runtime_phase_flow.py 16-112
advance_after_reveal(r) ==
    IF r.phase # "reveal" THEN r
    ELSE
    LET c == [_cancel_timer(r, "reveal") EXCEPT !.reveal_ends_at = FALSE]
        last_question == c.current_question_index >= c.question_count - 1
        next_question(team) ==
            _start_question_phase(
                [c EXCEPT !.current_question_index = c.current_question_index + 1,
                          !.last_reveal = "none",
                          !.active_answer = NoPeer,
                          !.answer_submissions = {},
                          !.active_team = team])
    IN  IF c.game_mode = "ffa"
        THEN (IF last_question THEN EnterResults(c) ELSE next_question(c.active_team))
        ELSE IF c.game_mode = "chaos"
        THEN (IF last_question THEN EnterResults(c) ELSE next_question("A"))
        ELSE IF c.last_reveal = "skippedByHost"
        THEN (IF last_question THEN EnterResults(c) ELSE next_question("A"))
        ELSE IF c.active_team = "A"
        THEN _start_question_phase(
                [c EXCEPT !.active_answer = NoPeer,
                          !.answer_submissions = {},
                          !.last_reveal = "none",
                          !.active_team = "B"])
        ELSE IF last_question THEN EnterResults(c)
        ELSE _start_question_phase(
                [c EXCEPT !.current_question_index = c.current_question_index + 1,
                          !.active_team = "A",
                          !.answer_submissions = {}])

\* runtime_phase_flow.py 115-134
finalize_team_naming(r) ==
    IF r.phase # "team-naming" THEN r
    ELSE _start_question_phase(
            [_cancel_timer(r, "teamNaming") EXCEPT
                !.team_naming_ready_teams = [t \in Teams |-> TRUE],
                !.current_question_index = 0,
                !.active_team = "A",
                !.last_reveal = "none",
                !.active_answer = NoPeer,
                !.answer_submissions = {}])

\* runtime_phase_flow.py 137-155
start_team_naming_phase(r) ==
    LET n == _initialize_team_naming_progress(
                [SetPhase(r, "team-naming") EXCEPT
                    !.team_reveal_ends_at = FALSE,
                    !.captain_vote_ends_at = FALSE,
                    !.team_naming_ends_at = TRUE])
    IN  IF _are_all_teams_ready(n.team_naming_ready_teams) THEN finalize_team_naming(n)
        ELSE _broadcast_and_persist(
                _schedule_timer(n, "teamNaming", "finalize_team_naming", {}))

\* runtime_phase_flow.py 158-192
finalize_captain_vote(r, rnd) ==
    IF r.phase # "captain-vote" THEN r
    ELSE
    LET c == _cancel_timer(_cancel_timer(r, "captainVote"), "captainAuto") IN
    IF c.game_mode # "classic"
    THEN start_team_naming_phase(_apply_captain_flags(
            [c EXCEPT !.captains = [t \in Teams |-> NoPeer],
                      !.captain_vote_ready_teams = [t \in Teams |-> TRUE]]))
    ELSE start_team_naming_phase(_apply_captain_flags(
            [c EXCEPT !.captains = [t \in Teams |->
                          IF c.captains[t] # NoPeer THEN c.captains[t]
                          ELSE _choose_captain_by_votes(c, t, rnd[t])],
                      !.captain_vote_ready_teams = [t \in Teams |-> TRUE]]))

\* QuizRuntime._all_non_empty_teams_single_member is not among the sources; by its
\* name and its use in start_captain_vote: no team has more than one member.
_all_non_empty_teams_single_member(r) ==
    /\ \E t \in Teams : _team_players(r, t) # {}
    /\ \A t \in Teams : Cardinality(_team_players(r, t)) <= 1

\* runtime_phase_flow.py 195-227 (_captain_vote_timeout_ms only sets the delay)
start_captain_vote(r, rnd) ==
    IF r.game_mode # "classic" THEN start_team_naming_phase(r)
    ELSE
    LET v == [SetPhase(r, "captain-vote") EXCEPT
                !.team_reveal_ends_at = FALSE,
                !.captain_vote_ends_at = TRUE,
                !.team_naming_ends_at = FALSE,
                !.team_naming_ready_teams = [t \in Teams |-> FALSE],
                !.captains = [t \in Teams |-> NoPeer],
                !.captain_vote_ready_teams = [t \in Teams |-> FALSE]]
        single_member_fast_path == _all_non_empty_teams_single_member(v)
        w == IF single_member_fast_path THEN v
             ELSE _schedule_single_member_auto_captain(_refresh_captain_vote_progress(v, rnd))
    IN  IF ~single_member_fast_path /\ _are_all_teams_ready(w.captain_vote_ready_teams)
        THEN finalize_captain_vote(w, rnd)
        ELSE _broadcast_and_persist(
                _schedule_timer(w, "captainVote", "finalize_captain_vote", {}))

\* runtime_phase_flow.py 230-236
after_team_reveal(r, rnd) ==
    IF r.phase # "team-reveal" THEN r
    ELSE IF r.game_mode = "classic" THEN start_captain_vote(r, rnd)
    ELSE start_team_naming_phase(r)

\* runtime.py 1851-1856: the shuffled non-host players take A, B, A, ... in turn;
\* team_a is the set the shuffle gives team A.
TeamSplits(r) ==
    {S \in SUBSET _non_host_players(r) :
        Cardinality(S) = (Cardinality(_non_host_players(r)) + 1) \div 2}

_assign_teams_for_start(r, team_a) ==
    [r EXCEPT !.players = [p \in PlayerIds(r) |->
        IF r.players[p].is_host THEN r.players[p]
        ELSE [r.players[p] EXCEPT !.team = IF p \in team_a THEN "A" ELSE "B"]]]

\* runtime_phase_flow.py 239-316 (catalog questions)
start_game(r, team_a) ==
    LET participant_count == Cardinality(_active_non_host_players(r)) IN
    IF participant_count = 0 THEN _broadcast_and_persist(r)
    ELSE IF r.game_mode \in {"classic", "chaos"} /\ participant_count < 2
    THEN _broadcast_and_persist(r)
    ELSE
    LET g == [_reset_captain_state(_clear_timers(r)) EXCEPT
                !.host_reconnect_ends_at = FALSE,
                !.paused_state = NoPause,
                !.current_question_index = -1,
                !.active_team = "A",
                !.question_ends_at = FALSE,
                !.team_reveal_ends_at = FALSE,
                !.captain_vote_ends_at = FALSE,
                !.team_naming_ends_at = FALSE,
                !.reveal_ends_at = FALSE,
                !.active_answer = NoPeer,
                !.answer_submissions = {},
                !.last_reveal = "none"]
    IN  IF g.game_mode = "ffa"
        THEN _start_question_phase(
                [g EXCEPT
                    !.players = [p \in PlayerIds(g) |->
                        IF g.players[p].is_host THEN g.players[p]
                        ELSE [g.players[p] EXCEPT !.is_spectator = FALSE,
                                                  !.team = NoTeam,
                                                  !.is_captain = FALSE]],
                    !.current_question_index = 0])
        ELSE _broadcast_and_persist(
                _schedule_timer(
                    [SetPhase(_assign_teams_for_start(g, team_a), "team-reveal") EXCEPT
                        !.team_reveal_ends_at = TRUE],
                    "teamReveal", "after_team_reveal", {}))

\* runtime_phase_flow.py 319-367
reset_game(r) ==
    LET c == _reset_captain_state(
                [SetPhase(_clear_timers(r), "lobby") EXCEPT
                    !.current_question_index = -1,
                    !.active_team = "A",
                    !.question_ends_at = FALSE,
                    !.team_reveal_ends_at = FALSE,
                    !.captain_vote_ends_at = FALSE,
                    !.team_naming_ends_at = FALSE,
                    !.reveal_ends_at = FALSE,
                    !.host_reconnect_ends_at = FALSE,
                    !.paused_state = NoPause,
                    !.active_answer = NoPeer,
                    !.answer_submissions = {},
                    !.last_reveal = "none"])
    IN  _broadcast_and_persist(
            [c EXCEPT !.players = [p \in PlayerIds(c) |->
                IF c.players[p].is_host THEN c.players[p]
                ELSE [c.players[p] EXCEPT !.is_spectator = FALSE, !.team = NoTeam]]])

\* runtime_question_flow.py 372-482
skip_question_by_host(r) ==
    IF r.phase # "question" \/ r.current_question_index < 0 THEN r
    ELSE LET c == _cancel_timer(r, "question") IN
         IF c.current_question_index >= c.question_count THEN c
         ELSE
         LET k == [c EXCEPT !.question_ends_at = FALSE,
                            !.active_answer = NoPeer,
                            !.answer_submissions = {}]
         IN  IF k.game_mode = "ffa"
             THEN LET f == [k EXCEPT !.last_reveal = "none", !.reveal_ends_at = FALSE] IN
                  IF f.current_question_index >= f.question_count - 1
                  THEN _broadcast_and_persist(
                            _schedule_persist_game_result(SetPhase(f, "results")))
                  ELSE _start_question_phase(
                            [f EXCEPT !.current_question_index =
                                          f.current_question_index + 1])
             ELSE _broadcast_and_persist(
                    _schedule_timer(
                        [SetPhase(k, "reveal") EXCEPT
                            !.reveal_ends_at = TRUE,
                            !.last_reveal = "skippedByHost"],
                        "reveal", "advance_after_reveal", {}))

\* --------------------------------------------------------- host reconnect
\* runtime_host_reconnect.py 33-59 (the remaining time only sets the delay)
schedule_phase_timer(r, phase) ==
    IF phase = "question"
    THEN _schedule_timer([r EXCEPT !.question_ends_at = TRUE],
                         "question", "finalize_question", {})
    ELSE IF phase = "team-reveal"
    THEN _schedule_timer([r EXCEPT !.team_reveal_ends_at = TRUE],
                         "teamReveal", "after_team_reveal", {})
    ELSE IF phase = "captain-vote"
    THEN _schedule_timer([r EXCEPT !.captain_vote_ends_at = TRUE],
                         "captainVote", "finalize_captain_vote", {})
    ELSE IF phase = "team-naming"
    THEN _schedule_timer([r EXCEPT !.team_naming_ends_at = TRUE],
                         "teamNaming", "finalize_team_naming", {})
    ELSE IF phase = "reveal"
    THEN _schedule_timer([r EXCEPT !.reveal_ends_at = TRUE],
                         "reveal", "advance_after_reveal", {})
    ELSE r

\* runtime_host_reconnect.py 62-108
resume_after_host_reconnect(r) ==
    IF r.paused_state = NoPause
    THEN _broadcast_and_persist([r EXCEPT !.host_reconnect_ends_at = FALSE])
    ELSE LET snapshot_phase == r.paused_state
             c == [SetPhase(_clear_timers(r), snapshot_phase) EXCEPT
                      !.host_reconnect_ends_at = FALSE,
                      !.paused_state = NoPause,
                      !.disconnected_host_identity = NoIdentity,
                      !.question_ends_at = FALSE,
                      !.team_reveal_ends_at = FALSE,
                      !.captain_vote_ends_at = FALSE,
                      !.team_naming_ends_at = FALSE,
                      !.reveal_ends_at = FALSE]
         IN  _broadcast_and_persist(schedule_phase_timer(c, snapshot_phase))

\* runtime_host_reconnect.py 111-145; room.players keeps the order of admission,
\* which is the order of the peer ids.
assign_new_host(r) ==
    LET active == {p \in PlayerIds(r) : ~r.players[p].is_spectator}
        candidate == IF active # {} THEN Min(active) ELSE Min(PlayerIds(r))
    IN  IF PlayerIds(r) = {}
        THEN r
        ELSE [r EXCEPT
                !.host_peer_id = candidate,
                !.players = [p \in PlayerIds(r) |->
                    IF p # candidate THEN [r.players[p] EXCEPT !.is_host = FALSE]
                    ELSE [r.players[p] EXCEPT
                            !.is_host = TRUE,
                            !.is_spectator = FALSE,
                            !.team = IF r.phase = "lobby" THEN NoTeam ELSE @]]]

\* runtime_host_reconnect.py 148-156
should_pause_on_host_disconnect(phase) ==
    phase \in {"lobby", "team-reveal", "captain-vote", "team-naming", "question", "reveal"}

\* runtime_host_reconnect.py 159-218, when it pauses
pause_for_host_reconnect(r, host_identity) ==
    LET previous_phase == r.phase
        c == [SetPhase(_clear_timers(r), "host-reconnect") EXCEPT
                 !.paused_state = previous_phase,
                 !.disconnected_host_identity = host_identity,
                 !.question_ends_at = FALSE,
                 !.team_reveal_ends_at = FALSE,
                 !.captain_vote_ends_at = FALSE,
                 !.team_naming_ends_at = FALSE,
                 !.reveal_ends_at = FALSE,
                 !.host_reconnect_ends_at = TRUE]
    IN  _schedule_timer(_broadcast_and_persist(c),
                        "hostReconnect", "after_reconnect_timeout", {})

\* runtime_host_reconnect.py 205-209
after_reconnect_timeout(r) ==
    IF r.phase # "host-reconnect" THEN r
    ELSE resume_after_host_reconnect(assign_new_host(r))

\* ------------------------------------------------------------ manual pause
\* runtime.py 1387-1388
_is_manual_pause_allowed_phase(phase) ==
    phase \in {"team-reveal", "captain-vote", "team-naming", "question", "reveal"}

\* runtime.py 1390-1416
_pause_game_by_host(r) ==
    IF ~_is_manual_pause_allowed_phase(r.phase) THEN r
    ELSE LET previous_phase == r.phase IN
         _broadcast_and_persist(
            [SetPhase(_clear_timers(r), "manual-pause") EXCEPT
                !.paused_state = previous_phase,
                !.question_ends_at = FALSE,
                !.team_reveal_ends_at = FALSE,
                !.captain_vote_ends_at = FALSE,
                !.team_naming_ends_at = FALSE,
                !.reveal_ends_at = FALSE,
                !.host_reconnect_ends_at = FALSE])

\* A resume that goes back to the question phase whatever was paused.
ResumeQuestion(r) ==
    IF r.phase # "manual-pause" THEN r
    ELSE _broadcast_and_persist(
            schedule_phase_timer(
               [SetPhase(_clear_timers(r), "question") EXCEPT !.paused_state = NoPause],
               "question"))

\* runtime.py 1418-1445
_resume_game_by_host(r) ==
    IF r.phase # "manual-pause" THEN r
    ELSE LET snapshot_phase == IF _is_manual_pause_allowed_phase(r.paused_state)
                               THEN r.paused_state ELSE "question"
             c == [SetPhase(_clear_timers(r), snapshot_phase) EXCEPT
                      !.paused_state = NoPause,
                      !.question_ends_at = FALSE,
                      !.team_reveal_ends_at = FALSE,
                      !.captain_vote_ends_at = FALSE,
                      !.team_naming_ends_at = FALSE,
                      !.reveal_ends_at = FALSE]
         IN  _broadcast_and_persist(schedule_phase_timer(c, snapshot_phase))

\* runtime.py 1774-1793: TRUE when the team game cannot go on
StopTeamMode(r) ==
    /\ r.game_mode \in {"classic", "chaos"}
    /\ r.phase \notin {"lobby", "results"}
    /\ LET team_a_count == Cardinality(_active_team_players(r, "A"))
           team_b_count == Cardinality(_active_team_players(r, "B"))
       IN ~(team_a_count + team_b_count > 1 /\ team_a_count > 0 /\ team_b_count > 0)

\* --------------------------------------------------------------- admission
\* runtime.py 531-535
duplicate_by_token(r, player_token) ==
    IF /\ player_token # NoToken
       /\ player_token \in DOMAIN r.player_tokens
       /\ r.player_tokens[player_token] \in PlayerIds(r)
    THEN r.player_tokens[player_token]
    ELSE NoPeer

\* runtime.py 537-546
duplicate_by_identity(r, identity_key) ==
    LET same == {p \in PlayerIds(r) : /\ r.players[p].identity_key # NoIdentity
                                      /\ r.players[p].identity_key = identity_key}
    IN  IF identity_key # NoIdentity /\ same # {} THEN Min(same) ELSE NoPeer

\* runtime.py 548
duplicate_player(r, player_token, identity_key) ==
    IF duplicate_by_token(r, player_token) # NoPeer
    THEN duplicate_by_token(r, player_token)
    ELSE duplicate_by_identity(r, identity_key)

\* random_id() at runtime.py 493: an id no connection had before
FreshPeerId(r) == r.peers_made + 1

\* runtime.py 556-608: the seat of duplicate moves to websocket
ConnectionHandoff(r, duplicate, websocket, identity_key) ==
    LET h == [r EXCEPT !.players[duplicate].websocket = websocket,
                       !.players[duplicate].identity_key = identity_key,
                       !.handoffs = r.handoffs + 1,
                       !.last_frame[duplicate] = 0]
        should_resume_host == /\ h.players[duplicate].is_host
                              /\ h.phase = "host-reconnect"
                              /\ h.host_reconnect_ends_at
    IN  IF should_resume_host THEN resume_after_host_reconnect(h)
        ELSE _broadcast_state(h)

\* runtime.py 642-719: a new seat
FreshAdmission(r, peer_id, websocket, is_host, identity_key, player_token, rnd) ==
    LET effective_player_token ==
            IF is_host THEN NoToken
            ELSE IF player_token # NoToken /\ player_token \notin DOMAIN r.player_tokens
            THEN player_token
            ELSE generate_secret(peer_id)
        a == IF is_host
             THEN [r EXCEPT
                     !.host_peer_id = peer_id,
                     !.players = [p \in PlayerIds(r) |->
                        [r.players[p] EXCEPT !.is_host = FALSE, !.is_spectator = FALSE]]]
             ELSE [r EXCEPT
                     !.player_tokens = Put(r.player_tokens, effective_player_token, peer_id)]
        is_paused_lobby == a.phase = "host-reconnect" /\ a.paused_state = "lobby"
        is_spectator == ~is_host /\ ~(a.phase = "lobby" \/ is_paused_lobby)
        b == [a EXCEPT
                !.peers_made = peer_id,
                !.players = Put(a.players, peer_id,
                    PlayerConnection(NoTeam, is_host, websocket, is_spectator,
                                     identity_key, effective_player_token))]
        c == IF b.game_mode = "classic" /\ b.phase = "captain-vote"
             THEN _schedule_single_member_auto_captain(_refresh_captain_vote_progress(b, rnd))
             ELSE b
        should_resume_host == is_host /\ c.phase = "host-reconnect" /\ c.host_reconnect_ends_at
    IN  IF should_resume_host THEN resume_after_host_reconnect(c)
        ELSE _broadcast_and_persist(c)

\* runtime.py 530-752: the outcome of a join under room.lock
JoinOutcome(r, host_token, player_token, identity_key, room_password) ==
    LET requested_host == host_token # ""
        duplicate == duplicate_player(r, player_token, identity_key)
    IN  IF duplicate # NoPeer
        THEN (IF requested_host # r.players[duplicate].is_host
              THEN "ACCOUNT_ALREADY_IN_ROOM" ELSE "handoff")
        ELSE IF Cardinality(PlayerIds(r)) >= MAX_PLAYERS THEN "ROOM_FULL"
        ELSE IF requested_host
        THEN (IF r.host_token_hash = "" \/ hash_secret(host_token) # r.host_token_hash
              THEN "HOST_TOKEN_INVALID" ELSE "fresh")
        ELSE IF r.room_password_hash # "" /\ room_password = ""
        THEN "ROOM_PASSWORD_REQUIRED"
        ELSE IF r.room_password_hash # "" /\ hash_secret(room_password) # r.room_password_hash
        THEN "ROOM_PASSWORD_INVALID"
        ELSE "fresh"

\* A rejected join that is let in all the same.
AdmitWhatever(r, websocket, host_token, player_token, identity_key, room_password, rnd) ==
    FreshAdmission(r, FreshPeerId(r), websocket, FALSE, identity_key, player_token, rnd)

\* runtime.py 530-752: a rejected join changes nothing in the room
handle_websocket(r, websocket, host_token, player_token, identity_key, room_password, rnd) ==
    LET outcome == JoinOutcome(r, host_token, player_token, identity_key, room_password)
        duplicate == duplicate_player(r, player_token, identity_key)
    IN  IF outcome = "handoff"
        THEN ConnectionHandoff(r, duplicate, websocket, identity_key)
        ELSE IF outcome = "fresh"
        THEN FreshAdmission(r, FreshPeerId(r), websocket, host_token # "",
                            identity_key, player_token, rnd)
        ELSE r

\* ----------------------------------------------------------------- cleanup
\* runtime.py 956-963
TeamNamingAfterLeave(r) ==
    [r EXCEPT !.team_naming_ready_teams = [t \in Teams |->
        IF Cardinality(_team_players(r, t)) = 0 THEN TRUE
        ELSE IF r.game_mode = "classic" /\ r.captains[t] = NoPeer THEN TRUE
        ELSE r.team_naming_ready_teams[t]]]

\* runtime.py 922-929
CaptainSlotAfterLeave(r, removed, peer_id, rnd) ==
    IF ~(r.game_mode = "classic" /\ removed.team # NoTeam /\ r.captains[removed.team] = peer_id)
    THEN r
    ELSE
    LET team == removed.team
        a == [r EXCEPT !.captains[team] = NoPeer]
        b == IF a.phase # "team-naming" THEN a
             ELSE LET n == _reassign_captain_if_needed(
                              [a EXCEPT !.team_naming_ready_teams[team] = FALSE], team, rnd)
                  IN IF n.captains[team] = NoPeer
                     THEN [n EXCEPT !.team_naming_ready_teams[team] = TRUE]
                     ELSE n
    IN  _apply_captain_flags(b)

\* runtime.py 931-936
LobbyFlagsAfterLeave(r) ==
    IF r.phase # "lobby" THEN r
    ELSE [r EXCEPT !.players = [p \in PlayerIds(r) |->
            IF r.players[p].is_host THEN r.players[p]
            ELSE [r.players[p] EXCEPT !.is_spectator = FALSE,
                                      !.team = NoTeam,
                                      !.is_captain = FALSE]]]

\* runtime.py 946-983
AfterLeaveProgress(r, rnd) ==
    LET v == IF r.game_mode = "classic" /\ r.phase = "captain-vote"
             THEN _schedule_single_member_auto_captain(_refresh_captain_vote_progress(r, rnd))
             ELSE r
    IN  IF /\ v.game_mode = "classic" /\ v.phase = "captain-vote"
           /\ _are_all_teams_ready(v.captain_vote_ready_teams)
        THEN _broadcast_and_persist(finalize_captain_vote(v, rnd))
        ELSE
        LET n == IF v.phase = "team-naming" THEN TeamNamingAfterLeave(v) ELSE v IN
        IF n.phase = "team-naming" /\ _are_all_teams_ready(n.team_naming_ready_teams)
        THEN _broadcast_and_persist(finalize_team_naming(n))
        ELSE IF /\ n.phase = "question" /\ n.game_mode \in {"ffa", "chaos"}
                /\ _answer_eligible_players(n) # {}
                /\ Cardinality(n.answer_submissions)
                      >= Cardinality(_answer_eligible_players(n))
        THEN _broadcast_and_persist(finalize_question(n))
        ELSE _broadcast_and_persist(n)

\* runtime.py 886-1007: the seat of peer_id is given up
RemoveConnection(r, peer_id, rnd) ==
    LET removed == r.players[peer_id]
        a == _cleanup_votes_for_player(
                [r EXCEPT
                    !.players = Drop(r.players, peer_id),
                    !.player_tokens =
                        IF /\ removed.player_token # NoToken
                           /\ removed.player_token \in DOMAIN r.player_tokens
                           /\ r.player_tokens[removed.player_token] = peer_id
                        THEN Drop(r.player_tokens, removed.player_token)
                        ELSE r.player_tokens,
                    !.answer_submissions = r.answer_submissions \ {peer_id}],
                peer_id)
    IN  IF PlayerIds(a) = {}
        THEN [_mark_state_changed(_clear_timers(a)) EXCEPT !.evicted = TRUE]
        ELSE
        LET h == IF removed.is_host \/ a.host_peer_id = peer_id
                 THEN (IF should_pause_on_host_disconnect(a.phase)
                       THEN pause_for_host_reconnect(a, removed.identity_key)
                       ELSE assign_new_host(a))
                 ELSE a
            l == LobbyFlagsAfterLeave(CaptainSlotAfterLeave(h, removed, peer_id, rnd))
        IN  IF StopTeamMode(l) THEN reset_game(l)
            ELSE AfterLeaveProgress(l, rnd)

\* A cleanup that does not look at the websocket that ended.
CleanupWhateverSocket(r, peer_id, websocket, rnd) ==
    IF r.evicted \/ peer_id \notin PlayerIds(r) THEN r
    ELSE RemoveConnection(r, peer_id, rnd)

\* runtime.py 862-884
_cleanup_connection(r, peer_id, websocket, rnd) ==
    IF r.evicted \/ peer_id \notin PlayerIds(r) THEN r
    ELSE IF r.players[peer_id].websocket # websocket THEN r
    ELSE RemoveConnection(r, peer_id, rnd)

\* ------------------------------------------------------- message handlers
\* runtime_message_handlers.py 54-69: the early returns of vote-captain
VoteCaptainAccepted(r, peer_id, candidate_peer_id) ==
    /\ r.game_mode = "classic"
    /\ r.phase = "captain-vote"
    /\ ~r.players[peer_id].is_host
    /\ r.players[peer_id].team # NoTeam
    /\ ~r.captain_vote_ready_teams[r.players[peer_id].team]
    /\ candidate_peer_id # peer_id
    /\ candidate_peer_id \in PlayerIds(r)
    /\ ~r.players[candidate_peer_id].is_host
    /\ r.players[candidate_peer_id].team = r.players[peer_id].team

\* runtime_message_handlers.py 71-93
vote_captain(r, peer_id, candidate_peer_id, rnd) ==
    LET team == r.players[peer_id].team
        ballots == r.captain_ballots[team]
        votes == r.captain_votes[team]
        previous_candidate == IF peer_id \in DOMAIN ballots THEN ballots[peer_id] ELSE NoPeer
        current_count == IF previous_candidate \in DOMAIN votes
                         THEN votes[previous_candidate] ELSE 0
        next_count == Max2(0, current_count - 1)
        votes1 == IF previous_candidate = NoPeer THEN votes
                  ELSE IF next_count = 0 THEN Drop(votes, previous_candidate)
                  ELSE Put(votes, previous_candidate, next_count)
        votes2 == Put(votes1, candidate_peer_id,
                      (IF candidate_peer_id \in DOMAIN votes1
                       THEN votes1[candidate_peer_id] ELSE 0) + 1)
        v == [r EXCEPT !.captain_ballots[team] = Put(ballots, peer_id, candidate_peer_id),
                       !.captain_votes[team] = votes2]
        w == _schedule_single_member_auto_captain(_refresh_captain_vote_progress(v, rnd))
    IN  IF _are_all_teams_ready(w.captain_vote_ready_teams)
        THEN finalize_captain_vote(w, rnd)
        ELSE _broadcast_and_persist(w)

\* runtime_message_handlers.py 95-104, 119-128: the early returns of set-team-name
\* and random-team-name
TeamNameAccepted(r, peer_id) ==
    /\ r.phase = "team-naming"
    /\ r.players[peer_id].team # NoTeam
    /\ IF r.game_mode = "classic" THEN r.players[peer_id].is_captain
       ELSE ~r.players[peer_id].is_host
    /\ ~r.team_naming_ready_teams[r.players[peer_id].team]

\* runtime_message_handlers.py 106-117, 130-140 (the names themselves are left out)
set_team_name(r, peer_id) ==
    LET n == [r EXCEPT !.team_naming_ready_teams[r.players[peer_id].team] = TRUE] IN
    IF _are_all_teams_ready(n.team_naming_ready_teams) THEN finalize_team_naming(n)
    ELSE _broadcast_and_persist(n)

\* runtime_message_handlers.py 142-179: the early returns of submit-answer
SubmitAnswerAccepted(r, peer_id) ==
    /\ r.phase = "question"
    /\ ~r.players[peer_id].is_spectator
    /\ IF r.game_mode = "classic"
       THEN /\ r.players[peer_id].team = r.active_team
            /\ r.players[peer_id].is_captain
            /\ r.active_answer = NoPeer
       ELSE /\ (r.game_mode = "chaos" =>
                    ~r.players[peer_id].is_host /\ r.players[peer_id].team \in Teams)
            /\ (r.game_mode = "ffa" => ~r.players[peer_id].is_host)
            /\ peer_id \notin r.answer_submissions

\* runtime_message_handlers.py 163-193
submit_answer(r, peer_id) ==
    IF r.game_mode = "classic"
    THEN finalize_question([r EXCEPT !.active_answer = peer_id, !.recorded = peer_id])
    ELSE LET a == [r EXCEPT !.answer_submissions = r.answer_submissions \cup {peer_id},
                            !.recorded = peer_id]
         IN  IF /\ _answer_eligible_players(a) # {}
                /\ Cardinality(a.answer_submissions)
                      >= Cardinality(_answer_eligible_players(a))
             THEN finalize_question(a)
             ELSE _broadcast_and_persist(a)

\* runtime_message_handlers.py 37-46
toggle_pause(r) ==
    IF r.phase = "manual-pause" THEN _resume_game_by_host(r) ELSE _pause_game_by_host(r)

\* ---------------------------------------------------------- timer callbacks
AutoPickTeam(r, team, teams_for_auto) ==
    IF /\ team \in teams_for_auto
       /\ ~r.captain_vote_ready_teams[team]
       /\ Cardinality(_team_players(r, team)) = 1
    THEN [r EXCEPT !.captains[team] = Min(_team_players(r, team)),
                   !.captain_vote_ready_teams[team] = TRUE]
    ELSE r

\* runtime.py 1974-1999
auto_pick_single_member_captains(r, teams_for_auto, rnd) ==
    IF r.phase # "captain-vote" THEN r
    ELSE LET p == AutoPickTeam(AutoPickTeam(r, TEAM_KEYS[1], teams_for_auto),
                               TEAM_KEYS[2], teams_for_auto)
             changed == p.captain_vote_ready_teams # r.captain_vote_ready_teams
             f == IF changed THEN _apply_captain_flags(p) ELSE p
         IN  IF _are_all_teams_ready(f.captain_vote_ready_teams)
             THEN finalize_captain_vote(f, rnd)
             ELSE IF changed THEN _broadcast_and_persist(f)
             ELSE f

\* runtime.py 1738-1745: runner() holds room.lock and awaits callback(room)
RunCallback(r, task, rnd) ==
    IF task.callback = "finalize_question" THEN finalize_question(r)
    ELSE IF task.callback = "advance_after_reveal" THEN advance_after_reveal(r)
    ELSE IF task.callback = "after_team_reveal" THEN after_team_reveal(r, rnd)
    ELSE IF task.callback = "finalize_captain_vote" THEN finalize_captain_vote(r, rnd)
    ELSE IF task.callback = "finalize_team_naming" THEN finalize_team_naming(r)
    ELSE IF task.callback = "after_reconnect_timeout" THEN after_reconnect_timeout(r)
    ELSE auto_pick_single_member_captains(r, task.teams, rnd)

\* ----------------------------------------------------------------- actions
NoTaskRecord == [key |-> "none", stamp |-> NoTask, callback |-> "none",
                 teams |-> {}, st |-> "none"]

\* The record of an operation: what it was, and the room r as the operation found it.
Operation(r, kind, peer, socket, closed, task) ==
    [kind |-> kind, peer |-> peer, socket |-> socket, closed |-> closed, task |-> task,
     count |-> Cardinality(PlayerIds(r)),
     token |-> IF peer \in PlayerIds(r) THEN r.players[peer].player_token ELSE NoToken,
     ref |-> IF task.key \in TimerKeys THEN r.timers[task.key] ELSE NoTask,
     seq |-> r.phase_seq,
     version |-> r.state_version,
     waiting |-> {t.key : t \in {x \in r.tasks : x.st = "waiting"}},
     phase |-> r.phase,
     host |-> IF peer \in PlayerIds(r) THEN r.players[peer].is_host ELSE FALSE,
     eligible |-> _answer_eligible_players(r),
     submitted |-> r.answer_submissions,
     holder |-> r.lock,
     host_identity |-> r.disconnected_host_identity,
     sent |-> <<>>,
     close_code |-> 0]

\* What random.choice may draw for a team's captain in this operation.
Oracles ==
    LET draws(t) == IF room.game_mode = "classic" /\ _team_players(room, t) # {}
                    THEN _team_players(room, t) ELSE {NoPeer}
    IN  {[t \in Teams |-> IF t = "A" THEN a ELSE b] : a \in draws("A"), b \in draws("B")}

NoOracle == [t \in Teams |-> NoPeer]

\* The exploration goes on.  A handler keeps the room it looked up when its websocket
\* was opened (runtime.py 494), whether the registry still holds that room or not.
Live(b) == room.state_version < b.version

\* A client opens a websocket and sends its join frame.  A rejected join gets an
\* error frame and the close code 1008, and leaves the room as it was.  A join of
\* an evicted room is one that looked the room up (runtime.py 494) before the last
\* cleanup took it out of the registry (runtime.py 1002-1005) and got room.lock after.
Join(b) ==
    /\ Live(b)
    /\ \E host_token \in b.host_tokens,
          player_token \in b.player_tokens \cup DOMAIN room.player_tokens,
          identity_key \in b.identity_keys, rnd \in Oracles,
          room_password \in {""} \cup (IF room.room_password_hash = "" THEN {}
                                       ELSE {RoomPassword}) :
        LET outcome == JoinOutcome(room, host_token, player_token, identity_key,
                                   room_password)
            duplicate == duplicate_player(room, player_token, identity_key)
            old == IF outcome = "handoff" THEN room.players[duplicate].websocket
                   ELSE NoSocket
            peer == IF outcome = "handoff" THEN duplicate
                    ELSE IF outcome = "fresh" THEN FreshPeerId(room)
                    ELSE NoPeer
            websocket == IF outcome = "handoff" THEN WebSocket(peer, old[2] + 1)
                         ELSE IF outcome = "fresh" THEN WebSocket(peer, 0)
                         ELSE NoSocket
        IN  /\ outcome \in {"fresh", "handoff"}
            /\ outcome = "fresh" => room.peers_made < b.peers
            /\ outcome = "handoff" => room.handoffs < b.handoffs
            /\ room' = handle_websocket(BeginOperation(room), websocket, host_token,
                                        player_token, identity_key, room_password, rnd)
            /\ sockets' = IF websocket = NoSocket THEN sockets
                          ELSE sockets \cup {websocket}
            /\ op' = Operation(room, outcome, peer, websocket, old, NoTaskRecord)

\* A join that the admission rejects (runtime.py 730-752): one error frame with the
\* code goes to the new websocket, which the server then closes with 1008; the
\* websocket never becomes a connection of the room.
RejectedJoin(b) ==
    \E host_token \in b.host_tokens,
       player_token \in b.player_tokens \cup DOMAIN room.player_tokens,
       identity_key \in b.identity_keys,
       room_password \in {"", RoomPassword, "wrong-password"} :
        LET outcome == JoinOutcome(room, host_token, player_token, identity_key,
                                   room_password)
        IN  /\ outcome \notin {"fresh", "handoff"}
            /\ room' = handle_websocket(BeginOperation(room), NoSocket, host_token,
                                        player_token, identity_key, room_password,
                                        NoOracle)
            /\ sockets' = sockets
            /\ op' = [Operation(room, outcome, NoPeer, NoSocket, NoSocket, NoTaskRecord)
                        EXCEPT !.sent = <<[type |-> "error", code |-> outcome]>>,
                               !.close_code = 1008]

\* A websocket ends (the client leaves, or the server closed it in a handoff) and
\* its handler runs _cleanup_connection.
Disconnect(b) ==
    /\ room.state_version < b.version
    /\ \E websocket \in sockets, rnd \in Oracles :
        LET peer == websocket[1]
            stale == peer \notin PlayerIds(room) \/ room.players[peer].websocket # websocket
        IN  /\ room' = _cleanup_connection(BeginOperation(room), peer, websocket, rnd)
            /\ sockets' = sockets \ {websocket}
            /\ op' = Operation(room,
                               IF room.evicted THEN "evicted-disconnect"
                               ELSE IF stale THEN "stale-disconnect" ELSE "disconnect",
                               peer, websocket, NoSocket, NoTaskRecord)

\* runtime.py 779-783: a frame read from the websocket of a player, under room.lock
Receives(b, peer_id) ==
    /\ Live(b)
    /\ peer_id \in PlayerIds(room)
    /\ room.players[peer_id].websocket \in sockets

TogglePause(b) ==
    \E peer_id \in Peers :
        /\ Receives(b, peer_id)
        /\ room.players[peer_id].is_host
        /\ room.phase # "host-reconnect"
        /\ room.phase = "manual-pause" \/ _is_manual_pause_allowed_phase(room.phase)
        /\ room' = toggle_pause(BeginOperation(room))
        /\ op' = Operation(room, "toggle-pause", peer_id, room.players[peer_id].websocket, NoSocket,
                           NoTaskRecord)
        /\ UNCHANGED sockets

StartGame(b) ==
    \E peer_id \in Peers, team_a \in TeamSplits(room) :
        /\ Receives(b, peer_id)
        /\ room.players[peer_id].is_host
        /\ room.phase = "lobby"
        /\ room.game_mode = "ffa" => team_a = (CHOOSE S \in TeamSplits(room) : TRUE)
        /\ room' = start_game(BeginOperation(room), team_a)
        /\ op' = Operation(room, "start-game", peer_id, room.players[peer_id].websocket, NoSocket,
                           NoTaskRecord)
        /\ UNCHANGED sockets

VoteCaptain(b) ==
    \E peer_id \in Peers, candidate_peer_id \in Peers, rnd \in Oracles :
        /\ Receives(b, peer_id)
        /\ VoteCaptainAccepted(room, peer_id, candidate_peer_id)
        /\ room' = vote_captain(BeginOperation(room), peer_id,
                                candidate_peer_id, rnd)
        /\ op' = Operation(room, "vote-captain", peer_id, room.players[peer_id].websocket, NoSocket,
                           NoTaskRecord)
        /\ UNCHANGED sockets

\* set-team-name or random-team-name
SetTeamName(b) ==
    \E peer_id \in Peers :
        /\ Receives(b, peer_id)
        /\ TeamNameAccepted(room, peer_id)
        /\ room' = set_team_name(BeginOperation(room), peer_id)
        /\ op' = Operation(room, "set-team-name", peer_id, room.players[peer_id].websocket, NoSocket,
                           NoTaskRecord)
        /\ UNCHANGED sockets

SubmitAnswer(b) ==
    \E peer_id \in Peers :
        /\ Receives(b, peer_id)
        /\ SubmitAnswerAccepted(room, peer_id)
        /\ room' = submit_answer(BeginOperation(room), peer_id)
        /\ op' = Operation(room, "submit-answer", peer_id, room.players[peer_id].websocket, NoSocket,
                           NoTaskRecord)
        /\ UNCHANGED sockets

SkipQuestion(b) ==
    \E peer_id \in Peers :
        /\ Receives(b, peer_id)
        /\ room.players[peer_id].is_host
        /\ room.phase = "question"
        /\ room' = skip_question_by_host(BeginOperation(room))
        /\ op' = Operation(room, "skip-question", peer_id, room.players[peer_id].websocket, NoSocket,
                           NoTaskRecord)
        /\ UNCHANGED sockets

NewGame(b) ==
    \E peer_id \in Peers :
        /\ Receives(b, peer_id)
        /\ room.players[peer_id].is_host
        /\ room' = reset_game(BeginOperation(room))
        /\ op' = Operation(room, "new-game", peer_id, room.players[peer_id].websocket, NoSocket,
                           NoTaskRecord)
        /\ UNCHANGED sockets

\* asyncio.sleep(delay_s) of a timer task returns; the task now waits for room.lock.
TimerWake ==
    \E task \in room.tasks :
        /\ task.st = "sleeping"
        /\ room' = [room EXCEPT !.tasks = (room.tasks \ {task})
                                    \cup {[task EXCEPT !.st = "waiting"]}]
        /\ UNCHANGED <<sockets, op>>

\* A timer task gets room.lock and runs its callback.
TimerRun(b) ==
    /\ Live(b)
    /\ \E task \in room.tasks, rnd \in Oracles :
        /\ task.st = "waiting"
        /\ room' = RunCallback(BeginOperation([room EXCEPT !.tasks = room.tasks \ {task}]),
                               task, rnd)
        /\ op' = Operation(room, "timer", NoPeer, NoSocket, NoSocket, task)
        /\ UNCHANGED sockets

\* ---------------------------------------------------------- specifications
\* Admission: a room as create-room leaves it, and joins of every kind.
AdmissionBounds ==
    [version |-> MaxLobbyVersion, peers |-> MaxLobbyPeers,
     host_tokens |-> HostTokenInputs,
     player_tokens |-> {NoToken} \cup ClientTokens,
     identity_keys |-> {NoIdentity} \cup IdentityKeys,
     handoffs |-> MaxLobbyHandoffs]

Init ==
    /\ room \in {RoomRuntime(game_mode) : game_mode \in GAME_MODES}
    /\ sockets = {}
    /\ op = Operation(room, "create-room", NoPeer, NoSocket, NoSocket, NoTaskRecord)

Next ==
    \/ Join(AdmissionBounds)
    \/ Disconnect(AdmissionBounds)
    \/ StartGame(AdmissionBounds)
    \/ TimerWake
    \/ TimerRun(AdmissionBounds)

Spec == Init /\ [][Next]_vars

\* The game: a lobby the host and n players have joined, one after the other.
RECURSIVE Admitted(_, _)
Admitted(game_mode, n) ==
    IF n = 0 THEN RoomRuntime(game_mode)
    ELSE LET r == BeginOperation(Admitted(game_mode, n - 1)) IN
         FreshAdmission(r, FreshPeerId(r), WebSocket(n, 0), n = 1,
                        NoIdentity, NoToken, NoOracle)

GameBounds ==
    [version |-> MaxGameVersion, peers |-> MaxPeers,
     host_tokens |-> {"", "host-secret"},
     player_tokens |-> {NoToken},
     identity_keys |-> {NoIdentity},
     handoffs |-> MaxHandoffs]

GameInit ==
    \E game_mode \in GAME_MODES, n \in {MaxPeers - 1} :
        /\ room = Admitted(game_mode, n)
        /\ sockets = {WebSocket(p, 0) : p \in 1..n}
        /\ op = Operation(Admitted(game_mode, n - 1), "fresh", n, WebSocket(n, 0),
                          NoSocket, NoTaskRecord)

GameNext ==
    \/ Join(GameBounds)
    \/ Disconnect(GameBounds)
    \/ TogglePause(GameBounds)
    \/ StartGame(GameBounds)
    \/ VoteCaptain(GameBounds)
    \/ SetTeamName(GameBounds)
    \/ SubmitAnswer(GameBounds)
    \/ SkipQuestion(GameBounds)
    \/ NewGame(GameBounds)
    \/ TimerWake
    \/ TimerRun(GameBounds)

GameSpec == GameInit /\ [][GameNext]_vars

\* The closed room: nobody joins any more; the players who are there play on.
ClosedBounds ==
    [version |-> MaxStateVersion, peers |-> 0, host_tokens |-> {""},
     player_tokens |-> {NoToken}, identity_keys |-> {NoIdentity}, handoffs |-> 0]

ClosedInit ==
    \E game_mode \in GAME_MODES, n \in {MaxPeers - 1, MaxPeers} :
        /\ room = Admitted(game_mode, n)
        /\ sockets = {WebSocket(p, 0) : p \in 1..n}
        /\ op = Operation(Admitted(game_mode, n - 1), "fresh", n, WebSocket(n, 0),
                          NoSocket, NoTaskRecord)

ClosedNext ==
    \/ Disconnect(ClosedBounds)
    \/ TogglePause(ClosedBounds)
    \/ StartGame(ClosedBounds)
    \/ VoteCaptain(ClosedBounds)
    \/ SetTeamName(ClosedBounds)
    \/ SubmitAnswer(ClosedBounds)
    \/ SkipQuestion(ClosedBounds)
    \/ NewGame(ClosedBounds)
    \/ TimerWake
    \/ TimerRun(ClosedBounds)

ClosedSpec == ClosedInit /\ [][ClosedNext]_vars

\* The options of every question, as the state frame carries them when shown.
QuestionOptions == <<"option 0", "option 1">>

\* runtime_state_builders.py 8-53: the options of the current question in the state
\* frame built for a viewer.  The reveal of a classic question names the team that
\* was active (runtime_question_flow.py 190, 205).
build_question_for_viewer(r, viewer) ==
    LET v == r.players[viewer]
        teamless == r.game_mode \in {"ffa", "chaos"}
        reveal_team == IF r.last_reveal = "none" THEN NoTeam ELSE r.active_team
        can_see_options ==
            IF r.phase = "question"
            THEN teamless \/ v.is_host \/ v.is_spectator
                   \/ (v.team # NoTeam /\ v.team = r.active_team)
            ELSE IF r.phase = "reveal"
            THEN teamless \/ v.is_host \/ v.is_spectator
                   \/ (v.team # NoTeam /\ reveal_team = v.team)
            ELSE r.phase \in {"results", "team-naming", "captain-vote", "team-reveal",
                              "host-reconnect"}
    IN  IF r.current_question_index < 0 \/ r.current_question_index >= r.question_count
        THEN <<>>
        ELSE IF can_see_options THEN QuestionOptions ELSE <<>>

\* The pause button: every peer of the closed room may send toggle-pause in every
\* phase (runtime_message_handlers.py 37-46); a frame the handler returns from
\* leaves the room as it was.
PauseBounds ==
    [version |-> MaxPauseVersion, peers |-> 0, host_tokens |-> {""},
     player_tokens |-> {NoToken}, identity_keys |-> {NoIdentity}, handoffs |-> 0]

PauseFrame(b) ==
    \E peer_id \in Peers :
        /\ Receives(b, peer_id)
        /\ room' = IF ~room.players[peer_id].is_host THEN BeginOperation(room)
                   ELSE IF room.phase = "host-reconnect" THEN BeginOperation(room)
                   ELSE toggle_pause(BeginOperation(room))
        /\ op' = Operation(room, "toggle-pause", peer_id, room.players[peer_id].websocket,
                           NoSocket, NoTaskRecord)
        /\ UNCHANGED sockets

PauseNext ==
    \/ Disconnect(PauseBounds)
    \/ PauseFrame(PauseBounds)
    \/ StartGame(PauseBounds)
    \/ VoteCaptain(PauseBounds)
    \/ SetTeamName(PauseBounds)
    \/ SubmitAnswer(PauseBounds)
    \/ TimerWake
    \/ TimerRun(PauseBounds)

PauseSpec == ClosedInit /\ [][PauseNext]_vars

\* ------------------------------------------------------------ the room lock
\* The order in which _clear_timers names the keys (runtime.py 1718-1726).
TimerKeyOrder == <<"question", "reveal", "teamReveal", "captainVote", "captainAuto",
                   "teamNaming", "hostReconnect">>

TimerId(task) == <<task.stamp, CHOOSE i \in DOMAIN TimerKeyOrder : TimerKeyOrder[i] = task.key>>

\* The tasks that may be at "async with room.lock": a join (runtime.py 530), a frame
\* read from a websocket (779), the cleanup of a websocket that ended (870), a timer
\* task whose sleep is over (1744).
Contenders(r, open) ==
    {[kind |-> "join", id |-> NoSocket, ran |-> FALSE]}
    \cup {[kind |-> "message", id |-> r.players[p].websocket, ran |-> FALSE] :
            p \in {q \in PlayerIds(r) : r.players[q].websocket \in open}}
    \cup {[kind |-> "cleanup", id |-> ws, ran |-> FALSE] : ws \in open}
    \cup {[kind |-> "timer", id |-> TimerId(t), ran |-> FALSE] :
            t \in {x \in r.tasks : x.st = "waiting"}}

\* No lock at all.
HeldByNobody(r, kind, id) == TRUE

\* The body of "async with room.lock" runs in the task that holds the lock.
HeldBy(r, kind, id) == r.lock = [kind |-> kind, id |-> id, ran |-> FALSE]

\* The lock is free and one of the tasks that wait for it gets it.
LockAcquire(b) ==
    /\ Live(b)
    /\ room.lock = NoHolder
    /\ \E holder \in Contenders(room, sockets) :
        room' = [room EXCEPT !.lock = holder]
    /\ UNCHANGED <<sockets, op>>

\* The end of the "async with" block: after the operation, or after an early return
\* or a rejected join.  A timer task always runs its callback first.
LockRelease ==
    /\ room.lock # NoHolder
    /\ room.lock.kind = "timer" => room.lock.ran
    /\ room' = [room EXCEPT !.lock = NoHolder]
    /\ UNCHANGED <<sockets, op>>

LockedJoin(b) ==
    /\ HeldBy(room, "join", NoSocket)
    /\ Join(b)

LockedCleanup(b) ==
    /\ room.lock.kind = "cleanup"
    /\ Disconnect(b)
    /\ HeldBy(room, "cleanup", op'.socket)

LockedMessage(b) ==
    /\ room.lock.kind = "message"
    /\ \/ TogglePause(b)
       \/ StartGame(b)
       \/ VoteCaptain(b)
       \/ SetTeamName(b)
       \/ SubmitAnswer(b)
       \/ SkipQuestion(b)
       \/ NewGame(b)
    /\ HeldBy(room, "message", op'.socket)

LockedTimer(b) ==
    /\ room.lock.kind = "timer"
    /\ TimerRun(b)
    /\ HeldBy(room, "timer", TimerId(op'.task))

LockBounds ==
    [version |-> MaxLockVersion, peers |-> MaxLockPeers,
     host_tokens |-> {"", "host-secret"},
     player_tokens |-> {NoToken},
     identity_keys |-> {NoIdentity},
     handoffs |-> 0]

LockInit ==
    \E game_mode \in GAME_MODES :
        /\ room = Admitted(game_mode, MaxLockPeers - 1)
        /\ sockets = {WebSocket(p, 0) : p \in 1..(MaxLockPeers - 1)}
        /\ op = Operation(room, "create-room", NoPeer, NoSocket, NoSocket, NoTaskRecord)

LockNext ==
    \/ LockAcquire(LockBounds)
    \/ LockRelease
    \/ LockedJoin(LockBounds)
    \/ LockedCleanup(LockBounds)
    \/ LockedMessage(LockBounds)
    \/ LockedTimer(LockBounds)
    \/ TimerWake

LockSpec == LockInit /\ [][LockNext]_vars

\* ------------------------------------------------ the two levels of locks
\* The tasks of one room and what each of them does with rooms_lock, the mutex of
\* the registry, and with room.lock: two websocket handlers, a timer task, the
\* shutdown of the service and a reader of the statistics.  A task is at one
\* instruction of its program; at "acquire" it waits until the mutex is free.
LockTasks == {"websocket 1", "websocket 2", "timer", "shutdown", "stats"}
NoLockTask == "none"

Acquire(mutex) == [do |-> "acquire", mutex |-> mutex]
Release(mutex) == [do |-> "release", mutex |-> mutex]
Inside(what) == [do |-> what, mutex |-> "none"]

\* An eviction that stays inside "async with room.lock".
CleanupEvictsUnderRoomLock ==
    <<Acquire("rooms_lock"), Inside("lookup"), Release("rooms_lock"),
      Acquire("room.lock"), Inside("cleanup"),
      Acquire("rooms_lock"), Inside("evict"), Release("rooms_lock"),
      Release("room.lock")>>

\* runtime.py 493-494, 1018-1034, 530-752: the join of handle_websocket
JoinProgram ==
    <<Acquire("rooms_lock"), Inside("get-or-load"), Release("rooms_lock"),
      Acquire("room.lock"), Inside("join"), Release("room.lock")>>

\* runtime.py 779-783: a frame of the connection
MessageProgram ==
    <<Acquire("room.lock"), Inside("message"), Release("room.lock")>>

\* runtime.py 862-1007: _cleanup_connection; the eviction is skipped when players
\* remain
CleanupProgram ==
    <<Acquire("rooms_lock"), Inside("lookup"), Release("rooms_lock"),
      Acquire("room.lock"), Inside("cleanup"), Release("room.lock"),
      Acquire("rooms_lock"), Inside("evict"), Release("rooms_lock")>>

\* runtime.py 1739-1745: the runner of a timer after its sleep
TimerProgram ==
    <<Acquire("room.lock"), Inside("callback"), Release("room.lock")>>

\* runtime.py 334-345
ShutdownProgram ==
    <<Acquire("rooms_lock"), Inside("clear-registry"), Release("rooms_lock"),
      Acquire("room.lock"), Inside("final-persist"), Release("room.lock")>>

\* runtime.py 195-205
StatsProgram ==
    <<Acquire("rooms_lock"), Inside("read-registry"), Release("rooms_lock")>>

LockProgram(task) ==
    IF task \in {"websocket 1", "websocket 2"}
    THEN JoinProgram \o MessageProgram \o CleanupProgram
    ELSE IF task = "timer" THEN TimerProgram
    ELSE IF task = "shutdown" THEN ShutdownProgram
    ELSE StatsProgram

\* The instruction a task is at; a task that has ended is at none.
Instruction(r, task) ==
    IF r.pc[task] > Len(LockProgram(task)) THEN Inside("ended")
    ELSE LockProgram(task)[r.pc[task]]

\* The mutexes a task holds and the one it waits for.
HeldMutexes(r, task) == {m \in {"rooms_lock", "room.lock"} : r.holder[m] = task}

WaitsFor(r, task) ==
    LET i == Instruction(r, task)
    IN  IF i.do = "acquire" /\ r.holder[i.mutex] # NoLockTask THEN i.mutex ELSE "none"

\* What the instruction does to the room and the registry.
LockEffect(r, task, what) ==
    IF what = "get-or-load" THEN [r EXCEPT !.in_registry = TRUE]
    ELSE IF what = "join" THEN [r EXCEPT !.connected = r.connected \cup {task}]
    ELSE IF what = "cleanup"
    THEN [r EXCEPT !.connected = r.connected \ {task},
                   !.evicting = IF r.connected \ {task} = {} /\ task \in r.connected
                                THEN r.evicting \cup {task} ELSE r.evicting]
    ELSE IF what = "evict"
    THEN [r EXCEPT !.in_registry = IF task \in r.evicting /\ r.connected = {}
                                   THEN FALSE ELSE r.in_registry,
                   !.evicting = r.evicting \ {task}]
    ELSE IF what = "clear-registry" THEN [r EXCEPT !.in_registry = FALSE]
    ELSE r

\* Where a task goes on: _cleanup_connection returns after the lookup when the
\* registry has no room (runtime.py 865-866), and after its room.lock block unless
\* it removed the last player (1002).
NextPc(r, task) ==
    LET i == Instruction(r, task)
        ended == Len(LockProgram(task)) + 1
        in_cleanup == /\ task \in {"websocket 1", "websocket 2"}
                      /\ r.pc[task] > Len(JoinProgram \o MessageProgram)
        looked_up == r.pc[task] = Len(JoinProgram \o MessageProgram) + 3
    IN  IF in_cleanup /\ looked_up /\ ~r.in_registry THEN ended
        ELSE IF in_cleanup /\ i = Release("room.lock") /\ task \notin r.evicting
        THEN ended
        ELSE r.pc[task] + 1

TwoLockInit ==
    /\ room = [pc |-> [t \in LockTasks |-> 1],
               holder |-> [m \in {"rooms_lock", "room.lock"} |-> NoLockTask],
               connected |-> {}, evicting |-> {}, in_registry |-> TRUE,
               rounds |-> 0]
    /\ sockets = {}
    /\ op = [kind |-> "create-room", task |-> NoLockTask]

TwoLockNext ==
    \* a task gets a mutex that is free
    \/ \E task \in LockTasks :
         LET i == Instruction(room, task) IN
         /\ i.do = "acquire"
         /\ room.holder[i.mutex] = NoLockTask
         /\ room' = [room EXCEPT !.holder[i.mutex] = task, !.pc[task] = @ + 1]
         /\ op' = [kind |-> "acquire", task |-> task]
         /\ UNCHANGED sockets
    \* the end of an "async with" block
    \/ \E task \in LockTasks :
         LET i == Instruction(room, task) IN
         /\ i.do = "release"
         /\ room' = [room EXCEPT !.holder[i.mutex] = NoLockTask,
                                 !.pc[task] = NextPc(room, task)]
         /\ op' = [kind |-> "release", task |-> task]
         /\ UNCHANGED sockets
    \* the body of a block
    \/ \E task \in LockTasks :
         LET i == Instruction(room, task) IN
         /\ i.do \notin {"acquire", "release", "ended"}
         /\ room' = [LockEffect(room, task, i.do) EXCEPT !.pc[task] = NextPc(room, task)]
         /\ op' = [kind |-> i.do, task |-> task]
         /\ UNCHANGED sockets
    \* a timer is scheduled again, a client comes back, the statistics are read again
    \/ \E task \in LockTasks \ {"shutdown"} :
         /\ Instruction(room, task).do = "ended"
         /\ room.rounds < MaxLockRounds
         /\ room' = [room EXCEPT !.pc[task] = 1, !.rounds = @ + 1]
         /\ op' = [kind |-> "again", task |-> task]
         /\ UNCHANGED sockets

TwoLockSpec == TwoLockInit /\ [][TwoLockNext]_vars

\* ------------------------------------------------------------- snapshots
\* runtime_snapshot.py 237-296: the fields of the room that the model has.
serialize_snapshot(r) ==
    [stateVersion |-> Max2(1, r.state_version),
     gameMode |-> r.game_mode,
     questionCount |-> r.question_count,
     phase |-> r.phase,
     currentQuestionIndex |-> r.current_question_index,
     activeTeam |-> r.active_team,
     questionEndsAt |-> r.question_ends_at,
     teamRevealEndsAt |-> r.team_reveal_ends_at,
     captainVoteEndsAt |-> r.captain_vote_ends_at,
     teamNamingEndsAt |-> r.team_naming_ends_at,
     revealEndsAt |-> r.reveal_ends_at,
     hostReconnectEndsAt |-> r.host_reconnect_ends_at,
     hostTokenHash |-> r.host_token_hash,
     roomPasswordHash |-> r.room_password_hash,
     pausedState |-> r.paused_state,
     activeAnswer |-> r.active_answer,
     answerSubmissions |-> r.answer_submissions,
     lastReveal |-> r.last_reveal,
     captains |-> r.captains,
     captainVotes |-> r.captain_votes,
     captainBallots |-> r.captain_ballots,
     captainVoteReadyTeams |-> r.captain_vote_ready_teams,
     teamNamingReadyTeams |-> r.team_naming_ready_teams,
     players |-> {[peerId |-> p, team |-> r.players[p].team, isHost |-> r.players[p].is_host,
                   isSpectator |-> r.players[p].is_spectator,
                   isCaptain |-> r.players[p].is_captain] : p \in PlayerIds(r)}]

\* A load that applies nothing of the snapshot.
ApplyNothing(r, state) == r

\* runtime_snapshot.py 34-234: the players of the snapshot are not read.
apply_snapshot(r, state) ==
    [r EXCEPT
        !.game_mode = state.gameMode,
        !.question_count = state.questionCount,
        !.phase = state.phase,
        !.current_question_index = state.currentQuestionIndex,
        !.active_team = state.activeTeam,
        !.question_ends_at = state.questionEndsAt,
        !.team_reveal_ends_at = state.teamRevealEndsAt,
        !.captain_vote_ends_at = state.captainVoteEndsAt,
        !.team_naming_ends_at = state.teamNamingEndsAt,
        !.reveal_ends_at = state.revealEndsAt,
        !.host_reconnect_ends_at = state.hostReconnectEndsAt,
        !.host_token_hash = IF state.hostTokenHash # "" THEN state.hostTokenHash
                            ELSE r.host_token_hash,
        !.room_password_hash = IF state.roomPasswordHash # "" THEN state.roomPasswordHash
                               ELSE r.room_password_hash,
        !.paused_state = state.pausedState,
        !.active_answer = state.activeAnswer,
        !.answer_submissions = state.answerSubmissions,
        !.last_reveal = state.lastReveal,
        !.captains = state.captains,
        !.captain_votes = state.captainVotes,
        !.captain_ballots = state.captainBallots,
        !.captain_vote_ready_teams = state.captainVoteReadyTeams,
        !.team_naming_ready_teams = state.teamNamingReadyTeams,
        !.state_version = Max2(1, state.stateVersion)]

\* runtime.py 2137-2169
_reset_room_for_empty_connections(r) ==
    _reset_captain_state(
        [SetPhase(_clear_timers(r), "lobby") EXCEPT
            !.current_question_index = -1,
            !.active_team = "A",
            !.question_ends_at = FALSE,
            !.team_reveal_ends_at = FALSE,
            !.captain_vote_ends_at = FALSE,
            !.team_naming_ends_at = FALSE,
            !.reveal_ends_at = FALSE,
            !.host_reconnect_ends_at = FALSE,
            !.paused_state = NoPause,
            !.active_answer = NoPeer,
            !.answer_submissions = {},
            !.last_reveal = "none",
            !.players = EmptyMap,
            !.host_peer_id = NoPeer])

\* runtime.py 1036-1068: the room that _get_or_create_room makes of a stored snapshot
\* when the registry has no room of that id.  game_mode is the mode of the request.
_load_room(state, game_mode) ==
    LET loaded == apply_snapshot(RoomRuntime(game_mode), state)
    IN  IF loaded.phase # "lobby" THEN _reset_room_for_empty_connections(loaded) ELSE loaded

\* The process starts again with the snapshot of the room as it was: every websocket
\* is gone, and the first join of the room loads it.
LoadRoom ==
    \E game_mode \in GAME_MODES :
        /\ room.players # EmptyMap
        /\ room' = _load_room(serialize_snapshot(room), game_mode)
        /\ sockets' = {}
        /\ op' = [kind |-> "load-room", snapshot |-> serialize_snapshot(room)]

RestartNext ==
    \/ Disconnect(ClosedBounds)
    \/ TogglePause(ClosedBounds)
    \/ StartGame(ClosedBounds)
    \/ SetTeamName(ClosedBounds)
    \/ SubmitAnswer(ClosedBounds)
    \/ TimerWake
    \/ TimerRun(ClosedBounds)
    \/ LoadRoom

RestartSpec == GameInit /\ [][RestartNext]_vars

\* The captain vote: a classic room of the host and three or four players, teams of
\* two and one or of two and two; nobody joins.
VoteBounds ==
    [version |-> MaxVoteVersion, peers |-> 0, host_tokens |-> {""},
     player_tokens |-> {NoToken}, identity_keys |-> {NoIdentity}, handoffs |-> 0]

VoteInit ==
    \E n \in {MaxVotePeers - 1, MaxVotePeers} :
        /\ room = Admitted("classic", n)
        /\ sockets = {WebSocket(p, 0) : p \in 1..n}
        /\ op = Operation(Admitted("classic", n - 1), "fresh", n, WebSocket(n, 0),
                          NoSocket, NoTaskRecord)

VoteNext ==
    \/ Disconnect(VoteBounds)
    \/ StartGame(VoteBounds)
    \/ VoteCaptain(VoteBounds)
    \/ TimerWake
    \/ TimerRun(VoteBounds)

VoteSpec == VoteInit /\ [][VoteNext]_vars

\* The host's seat: the host, who has an identity, and one player are in the room;
\* clients of every identity join, with and without the host token.
ReclaimBounds ==
    [version |-> MaxReclaimVersion, peers |-> MaxReclaimPeers,
     host_tokens |-> {"", "host-secret"},
     player_tokens |-> {NoToken},
     identity_keys |-> {NoIdentity} \cup IdentityKeys,
     handoffs |-> 1]

ReclaimInit ==
    \E game_mode \in GAME_MODES, host_identity \in IdentityKeys :
        LET created == BeginOperation(RoomRuntime(game_mode))
            hosted == BeginOperation(
                        FreshAdmission(created, FreshPeerId(created), WebSocket(1, 0), TRUE,
                                       host_identity, NoToken, NoOracle))
        IN  /\ room = FreshAdmission(hosted, FreshPeerId(hosted), WebSocket(2, 0), FALSE,
                                     NoIdentity, NoToken, NoOracle)
            /\ sockets = {WebSocket(1, 0), WebSocket(2, 0)}
            /\ op = Operation(hosted, "fresh", 2, WebSocket(2, 0), NoSocket, NoTaskRecord)

ReclaimNext ==
    \/ Join(ReclaimBounds)
    \/ Disconnect(ReclaimBounds)
    \/ StartGame(ReclaimBounds)
    \/ TimerWake
    \/ TimerRun(ReclaimBounds)

ReclaimSpec == ReclaimInit /\ [][ReclaimNext]_vars

\* The host seat: a host who joined under an identity and one player, and clients
\* none of whom has the host token of the room: they send no host token or a
\* wrong one, under any identity.
SeatBounds ==
    [version |-> MaxLobbyVersion, peers |-> MaxLobbyPeers,
     host_tokens |-> {"", "wrong-secret"},
     player_tokens |-> {NoToken},
     identity_keys |-> {NoIdentity} \cup IdentityKeys,
     handoffs |-> 1]

SeatNext ==
    \/ Join(SeatBounds)
    \/ RejectedJoin(SeatBounds)
    \/ Disconnect(SeatBounds)
    \/ StartGame(SeatBounds)
    \/ TimerWake
    \/ TimerRun(SeatBounds)

SeatSpec == ReclaimInit /\ [][SeatNext]_vars

\* The door: joins that are let in and joins that are rejected, of rooms with and
\* without a password, with one seat left.
RejectBounds ==
    [version |-> MaxRejectVersion, peers |-> MAX_PLAYERS,
     host_tokens |-> HostTokenInputs,
     player_tokens |-> {NoToken},
     identity_keys |-> {NoIdentity},
     handoffs |-> 1]

RejectNext ==
    \/ Join(RejectBounds)
    \/ RejectedJoin(RejectBounds)
    \/ Disconnect(RejectBounds)
    \/ StartGame(RejectBounds)
    \/ TimerWake
    \/ TimerRun(RejectBounds)

RejectInit ==
    \E game_mode \in GAME_MODES, n \in {MAX_PLAYERS - 1},
       room_password \in {"", RoomPassword} :
        /\ room = [Admitted(game_mode, n) EXCEPT !.room_password_hash =
                     IF room_password = "" THEN "" ELSE hash_secret(room_password)]
        /\ sockets = {WebSocket(p, 0) : p \in 1..n}
        /\ op = Operation(Admitted(game_mode, n - 1), "fresh", n, WebSocket(n, 0),
                          NoSocket, NoTaskRecord)

RejectSpec == RejectInit /\ [][RejectNext]_vars

\* The late joiner: a host and one player, clients that join while the game is on,
\* and a host who leaves and comes back with the host token.
LateBounds ==
    [version |-> MaxLateVersion, peers |-> MaxLatePeers,
     host_tokens |-> {"", "host-secret"},
     player_tokens |-> {NoToken},
     identity_keys |-> {NoIdentity},
     handoffs |-> 0]

LateNext ==
    \/ Join(LateBounds)
    \/ Disconnect(LateBounds)
    \/ StartGame(LateBounds)
    \/ SubmitAnswer(LateBounds)
    \/ TimerWake
    \/ TimerRun(LateBounds)

LateSpec == ReclaimInit /\ [][LateNext]_vars

\* ------------------------------------------------------ the snapshot stores
\* One room and the two snapshot stores, with the clock in milliseconds: which state
\* version the durable store and the hot store hold, and when each was last written.
DB_ROOM_SNAPSHOT_INTERVAL_MS == 3500
REDIS_HOT_SNAPSHOT_INTERVAL_MS == 750

\* A call of _persist_room that wrote nothing and tried nothing.
NoAttempt == [db |-> FALSE, redis |-> FALSE, db_failed |-> FALSE]

\* A persist that writes the cache after the durable store in every call.
PersistBothStores(r, force_redis, force_db, db_ok, redis_ok) ==
    LET d == IF db_ok THEN [r EXCEPT !.db_state_version = r.state_version,
                                     !.last_db_snapshot_ms = r.now]
             ELSE r
    IN  [d EXCEPT !.redis_state_version = IF r.redis_connected /\ redis_ok
                                          THEN r.state_version ELSE @,
                  !.last_redis_snapshot_ms = r.now,
                  !.last_call = [db |-> TRUE, redis |-> TRUE, db_failed |-> ~db_ok]]

\* runtime.py 1103-1152, with the answers of the two stores.  save_room_snapshot
\* (database.py 324-344) raises when the database fails, and after the database it
\* writes the cache through set_room_snapshot, which does nothing without redis and
\* logs a failure of redis without raising (redis_cache.py 115-140): the time of
\* the hot write is recorded whether redis took the snapshot or not.
PersistOutcome(r, force_redis, force_db, db_ok, redis_ok) ==
    LET should_write_db ==
            force_db \/ r.now - r.last_db_snapshot_ms >= DB_ROOM_SNAPSHOT_INTERVAL_MS
        should_write_redis ==
            force_redis \/ r.now - r.last_redis_snapshot_ms >= REDIS_HOT_SNAPSHOT_INTERVAL_MS
        cached == r.redis_connected /\ redis_ok
    IN  IF should_write_db
        THEN IF ~db_ok
             THEN [r EXCEPT !.last_call = [db |-> TRUE, redis |-> FALSE, db_failed |-> TRUE]]
             ELSE [r EXCEPT !.db_state_version = r.state_version,
                            !.redis_state_version = IF cached THEN r.state_version ELSE @,
                            !.last_db_snapshot_ms = r.now,
                            !.last_redis_snapshot_ms = r.now,
                            !.last_call = [db |-> TRUE, redis |-> FALSE, db_failed |-> FALSE]]
        ELSE IF ~r.redis_connected THEN [r EXCEPT !.last_call = NoAttempt]
        ELSE IF ~should_write_redis THEN [r EXCEPT !.last_call = NoAttempt]
        ELSE [r EXCEPT !.redis_state_version = IF redis_ok THEN r.state_version ELSE @,
                       !.last_redis_snapshot_ms = r.now,
                       !.last_call = [db |-> FALSE, redis |-> TRUE, db_failed |-> FALSE]]

\* runtime.py 1103-1152, when both stores answer
_persist_room(r, force_redis, force_db) ==
    PersistOutcome(r, force_redis, force_db, TRUE, TRUE)

\* The room as create_room leaves it (runtime.py 308-332): in the registry, with
\* nobody connected, and written to the durable store.
PersistInit ==
    /\ \E redis_connected \in BOOLEAN :
         room = _persist_room(
                    [players |-> {}, state_version |-> 1, now |-> 10000, ticks |-> 0,
                     in_registry |-> TRUE, redis_connected |-> redis_connected,
                     last_db_snapshot_ms |-> 0, last_redis_snapshot_ms |-> 0,
                     db_state_version |-> 0, redis_state_version |-> 0,
                     last_call |-> NoAttempt],
                    FALSE, FALSE)
    /\ sockets = {}
    /\ op = [kind |-> "create-room", version |-> 1]

PersistNext ==
    \* time passes
    \/ /\ room.in_registry
       /\ room.ticks < MaxTicks
       /\ \E d \in TickSteps :
            room' = [room EXCEPT !.now = room.now + d, !.ticks = room.ticks + 1]
       /\ op' = [kind |-> "clock", version |-> room.state_version]
       /\ UNCHANGED sockets
    \* a fresh admission (runtime.py 642-719)
    \/ /\ room.in_registry
       /\ room.state_version < MaxPersistVersion
       /\ \E p \in 1..2 :
            /\ p \notin room.players
            /\ room' = _persist_room(
                          [room EXCEPT !.players = room.players \cup {p},
                                       !.state_version = room.state_version + 1],
                          FALSE, FALSE)
       /\ op' = [kind |-> "fresh", version |-> room.state_version]
       /\ UNCHANGED sockets
    \* a connection handoff (runtime.py 556-608)
    \/ /\ room.in_registry
       /\ room.players # {}
       /\ room' = _persist_room(room, TRUE, FALSE)
       /\ op' = [kind |-> "handoff", version |-> room.state_version]
       /\ UNCHANGED sockets
    \* a message that changes the room (runtime.py 1264-1267)
    \/ /\ room.in_registry
       /\ room.state_version < MaxPersistVersion
       /\ room.players # {}
       /\ room' = _persist_room([room EXCEPT !.state_version = room.state_version + 1],
                                FALSE, FALSE)
       /\ op' = [kind |-> "message", version |-> room.state_version]
       /\ UNCHANGED sockets
    \* a connection ends and others stay (runtime.py 912-989)
    \/ /\ room.in_registry
       /\ room.state_version < MaxPersistVersion
       /\ \E p \in room.players :
            /\ room.players # {p}
            /\ room' = _persist_room(
                          [room EXCEPT !.players = room.players \ {p},
                                       !.state_version = room.state_version + 1],
                          FALSE, FALSE)
       /\ op' = [kind |-> "disconnect", version |-> room.state_version]
       /\ UNCHANGED sockets
    \* the last connection ends (runtime.py 907-911, 1001-1006): the room leaves the
    \* registry and the times of its last writes are forgotten
    \/ /\ room.in_registry
       /\ \E p \in room.players :
            /\ room.players = {p}
            /\ room' = [_persist_room(
                           [room EXCEPT !.players = {},
                                        !.state_version = room.state_version + 1],
                           FALSE, FALSE)
                        EXCEPT !.in_registry = FALSE,
                               !.last_db_snapshot_ms = 0,
                               !.last_redis_snapshot_ms = 0]
       /\ op' = [kind |-> "last-disconnect", version |-> room.state_version]
       /\ UNCHANGED sockets

PersistSpec == PersistInit /\ [][PersistNext]_vars

\* ------------------------------------------------ what each persist call writes
\* One room and the two stores, either of which may refuse a write.  The clock
\* moves in steps that reach both intervals exactly.
StoreSteps == {250, 500, 3500}
StorePersistKinds == {"message", "handoff", "last-disconnect", "shutdown"}

\* runtime.py 176-178
_clear_snapshot_tracking(r) ==
    [r EXCEPT !.last_db_snapshot_ms = 0, !.last_redis_snapshot_ms = 0]

\* create_room (runtime.py 308-332) with a database that may refuse the first write
StoreInit ==
    /\ \E connected \in BOOLEAN, db_ok \in BOOLEAN :
          room = PersistOutcome(
                    [players |-> {1}, state_version |-> 0, now |-> 10000, ticks |-> 0,
                     in_registry |-> TRUE, redis_connected |-> connected,
                     last_db_snapshot_ms |-> 0, last_redis_snapshot_ms |-> 0,
                     db_state_version |-> 0, redis_state_version |-> 0,
                     last_call |-> NoAttempt],
                    FALSE, FALSE, db_ok, TRUE)
    /\ sockets = {}
    /\ op = [kind |-> "init"]

StoreNext ==
    \* time passes (runtime_utils.py 25-26)
    \/ /\ room.ticks < MaxStoreTicks
       /\ \E step \in StoreSteps :
            room' = [room EXCEPT !.now = room.now + step, !.ticks = room.ticks + 1]
       /\ op' = [kind |-> "clock"]
       /\ UNCHANGED sockets
    \* a message that changes the room (runtime.py 1264-1267); an evicted instance
    \* that still has a connection persists in the same way
    \/ /\ room.players # {}
       /\ room.state_version < MaxStoreVersion
       /\ \E db_ok \in BOOLEAN, redis_ok \in BOOLEAN :
            /\ room' = PersistOutcome(
                          [room EXCEPT !.state_version = room.state_version + 1],
                          FALSE, FALSE, db_ok, redis_ok)
            /\ op' = [kind |-> "message", force_redis |-> FALSE, force_db |-> FALSE,
                      db_ok |-> db_ok, redis_ok |-> redis_ok,
                      prev_failed |-> room.last_call.db_failed]
       /\ UNCHANGED sockets
    \* a connection handoff (runtime.py 556-608)
    \/ /\ room.players # {}
       /\ room.in_registry
       /\ \E db_ok \in BOOLEAN, redis_ok \in BOOLEAN :
            /\ room' = PersistOutcome(room, TRUE, FALSE, db_ok, redis_ok)
            /\ op' = [kind |-> "handoff", force_redis |-> TRUE, force_db |-> FALSE,
                      db_ok |-> db_ok, redis_ok |-> redis_ok,
                      prev_failed |-> room.last_call.db_failed]
       /\ UNCHANGED sockets
    \* the last connection ends (runtime.py 907-911, 1001-1006)
    \/ /\ room.players # {}
       /\ room.in_registry
       /\ room.state_version < MaxStoreVersion
       /\ \E db_ok \in BOOLEAN, redis_ok \in BOOLEAN :
            /\ room' = [_clear_snapshot_tracking(
                           PersistOutcome(
                              [room EXCEPT !.players = {},
                                           !.state_version = room.state_version + 1],
                              FALSE, FALSE, db_ok, redis_ok))
                        EXCEPT !.in_registry = FALSE]
            /\ op' = [kind |-> "last-disconnect", force_redis |-> FALSE,
                      force_db |-> FALSE, db_ok |-> db_ok, redis_ok |-> redis_ok,
                      prev_failed |-> room.last_call.db_failed]
       /\ UNCHANGED sockets
    \* the room is opened again (runtime.py 1009-1034, 493-530)
    \/ /\ room.players = {}
       /\ room' = [room EXCEPT !.players = {1}, !.in_registry = TRUE]
       /\ op' = [kind |-> "join"]
       /\ UNCHANGED sockets
    \* the service stops (runtime.py 334-345)
    \/ /\ room.in_registry
       /\ \E db_ok \in BOOLEAN, redis_ok \in BOOLEAN :
            /\ room' = [_clear_snapshot_tracking(
                           PersistOutcome(room, TRUE, TRUE, db_ok, redis_ok))
                        EXCEPT !.in_registry = FALSE, !.players = {}]
            /\ op' = [kind |-> "shutdown", force_redis |-> TRUE, force_db |-> TRUE,
                      db_ok |-> db_ok, redis_ok |-> redis_ok,
                      prev_failed |-> room.last_call.db_failed]
       /\ UNCHANGED sockets

StoreSpec == StoreInit /\ [][StoreNext]_vars

\* ------------------------------------------------ deadlines in milliseconds
\* One timed phase of one room with the clock in milliseconds: the deadline of the
\* phase, the pause that keeps what is left of it, and the points of a question.
\* The host is peer 1; peers 2 and 3 play, both in team A, peer 2 its captain.
QUESTION_TIME_MS == 30000
BASE_CORRECT_POINTS == 1
CHAT_BAN_STRIKES_TO_DISQUALIFY == 3
MinPhaseDelayMs == 120
NoDeadline == -1
TimedPlayers == {2, 3}
\* room.active_answer when the captain has not answered
NoAnswer == [selectedIndex |-> -1, byPeerId |-> NoPeer]

\* runtime_utils.py 267-275.  remaining / total >= 0.67 is compared in doubles; for
\* integers of this size it is the comparison 100 * remaining >= 67 * total.
calculate_speed_bonus(remaining_ms) ==
    LET safe_total == Max2(1, QUESTION_TIME_MS)
        safe_remaining == Max2(0, remaining_ms)
    IN  IF 100 * safe_remaining >= 67 * safe_total THEN 2
        ELSE IF 100 * safe_remaining >= 34 * safe_total THEN 1
        ELSE 0

\* runtime_host_reconnect.py 16-30
get_phase_remaining_ms_for_pause(r) == Max2(0, r.ends_at - r.now)

\* A delay that loses a millisecond.
PhaseDelayShortened(remaining_ms) == Max2(MinPhaseDelayMs, remaining_ms - 1)

\* runtime_host_reconnect.py 34
PhaseDelay(remaining_ms) == Max2(MinPhaseDelayMs, remaining_ms)

\* runtime_question_flow.py 73-75, 158-160, 318-320
PointsAwarded(is_correct, remaining_ms) ==
    (IF is_correct THEN BASE_CORRECT_POINTS ELSE 0)
        + (IF is_correct THEN calculate_speed_bonus(remaining_ms) ELSE 0)

\* runtime_question_flow.py 18-369, the points: who is scored, what was selected for
\* it, the remaining time the code takes and the points it adds.  pick is the draw of
\* _random_item among the answers with the most votes of the team (chaos).
ScoreQuestion(r, pick) ==
    LET question_ends_at == r.ends_at
        fallback_remaining_ms ==
            IF question_ends_at # NoDeadline THEN Max2(0, question_ends_at - r.now) ELSE 0
        answered == DOMAIN r.answer_submissions
        votes(i) == Cardinality({p \in answered : r.answer_submissions[p].selectedIndex = i})
        leaders == {i \in {0, 1} : votes(i) > 0 /\ \A j \in {0, 1} : votes(j) <= votes(i)}
        latest == IF answered = {} THEN NoPeer
                  ELSE CHOOSE p \in answered : \A q \in answered :
                          r.answer_submissions[q].answeredAt <= r.answer_submissions[p].answeredAt
        result(by, selected, remaining_ms) ==
            [by |-> by, selectedIndex |-> selected,
             timeRemainingMs |-> remaining_ms,
             pointsAwarded |-> PointsAwarded(selected = r.correctIndex, remaining_ms)]
        results ==
            IF r.game_mode = "ffa"
            THEN {result(p, r.answer_submissions[p].selectedIndex,
                         IF question_ends_at # NoDeadline
                         THEN Max2(0, question_ends_at - r.answer_submissions[p].answeredAt)
                         ELSE 0) : p \in answered}
            ELSE IF r.game_mode = "classic"
            THEN (IF r.active_answer = NoAnswer THEN {}
                  ELSE {result(r.active_answer.byPeerId, r.active_answer.selectedIndex,
                               fallback_remaining_ms)})
            ELSE (IF leaders = {} THEN {}
                  ELSE {result(latest, IF pick \in leaders THEN pick ELSE Min(leaders),
                               IF question_ends_at # NoDeadline
                               THEN Max2(0, question_ends_at
                                               - r.answer_submissions[latest].answeredAt)
                               ELSE fallback_remaining_ms)})
        total == LET RECURSIVE Sum(_)
                     Sum(S) == IF S = {} THEN 0
                               ELSE LET x == CHOOSE y \in S : TRUE
                                    IN  x.pointsAwarded + Sum(S \ {x})
                 IN  Sum(results)
    IN  [r EXCEPT
            !.phase = "reveal",
            !.ends_at = NoDeadline,
            !.timer = NoDeadline,
            !.active_answer = NoAnswer,
            !.answer_submissions = EmptyMap,
            !.last_reveal = results,
            !.player_scores = [p \in TimedPlayers |->
                IF r.game_mode = "ffa" /\ \E x \in results : x.by = p
                THEN r.player_scores[p] + (CHOOSE x \in results : x.by = p).pointsAwarded
                ELSE r.player_scores[p]],
            !.scores = [t \in Teams |->
                IF r.game_mode # "ffa" /\ t = "A" THEN r.scores[t] + total ELSE r.scores[t]]]

TimedOperation(r, kind) ==
    [kind |-> kind, phase |-> r.phase, left |-> r.ends_at - r.now,
     remaining |-> r.paused_state]

\* The phase has just begun: _start_question_phase (runtime.py 2018-2033) and the
\* other phases set the deadline to now_ms() plus the time of the phase.
TimedInit ==
    \E game_mode \in GAME_MODES,
       phase \in {"question", "team-reveal", "captain-vote", "team-naming", "reveal"} :
        LET phase_time_ms == IF phase = "question" THEN QUESTION_TIME_MS
                             ELSE IF phase = "team-reveal" THEN 6000
                             ELSE IF phase = "reveal" THEN 4000
                             ELSE 30000
        IN  /\ phase # "question" => game_mode = "classic"
            /\ room = [game_mode |-> game_mode, phase |-> phase, timed |-> phase,
                       now |-> 0, ticks |-> 0,
                       ends_at |-> phase_time_ms, timer |-> phase_time_ms,
                       paused_state |-> NoDeadline,
                       correctIndex |-> 0,
                       answer_submissions |-> EmptyMap, active_answer |-> NoAnswer,
                       answered_left |-> EmptyMap,
                       last_reveal |-> {},
                       scores |-> [t \in Teams |-> 0],
                       player_scores |-> [p \in TimedPlayers |-> 0]]
            /\ sockets = {WebSocket(p, 0) : p \in {1} \cup TimedPlayers}
            /\ op = TimedOperation(room, "start")

TimedNext ==
    \* the clock goes on, in every phase and in a pause
    \/ \E d \in TickSteps :
        /\ room.ticks < MaxTicks
        /\ room' = [room EXCEPT !.now = room.now + d, !.ticks = room.ticks + 1]
        /\ op' = TimedOperation(room, "clock")
        /\ UNCHANGED sockets
    \* the host's websocket ends, or the host sends toggle-pause: pause_for_host_reconnect
    \* (runtime_host_reconnect.py 168-183), _pause_game_by_host (runtime.py 1394-1408)
    \/ /\ room.phase = room.timed
       /\ room' = [room EXCEPT !.paused_state = get_phase_remaining_ms_for_pause(room),
                               !.phase = "paused",
                               !.ends_at = NoDeadline,
                               !.timer = NoDeadline]
       /\ op' = TimedOperation(room, "pause")
       /\ UNCHANGED sockets
    \* the pause is lifted: resume_after_host_reconnect (runtime_host_reconnect.py
    \* 72-107), _resume_game_by_host (runtime.py 1422-1438), schedule_phase_timer
    \/ /\ room.phase = "paused"
       /\ room' = [room EXCEPT !.phase = room.timed,
                               !.paused_state = NoDeadline,
                               !.ends_at = room.now + PhaseDelay(room.paused_state),
                               !.timer = room.now + PhaseDelay(room.paused_state)]
       /\ op' = TimedOperation(room, "resume")
       /\ UNCHANGED sockets
    \* submit-answer (runtime_message_handlers.py 142-193)
    \/ \E peer_id \in TimedPlayers, answer_index \in {0, 1}, pick \in {0, 1} :
        /\ room.phase = "question"
        /\ IF room.game_mode = "classic"
           THEN /\ peer_id = 2
                /\ room.active_answer = NoAnswer
                /\ room' = ScoreQuestion(
                              [room EXCEPT !.active_answer =
                                  [selectedIndex |-> answer_index, byPeerId |-> peer_id],
                                  !.answered_left = Put(room.answered_left, peer_id,
                                                        room.ends_at - room.now)], pick)
           ELSE /\ peer_id \notin DOMAIN room.answer_submissions
                /\ LET a == [room EXCEPT
                                !.answer_submissions = Put(room.answer_submissions, peer_id,
                                    [selectedIndex |-> answer_index, answeredAt |-> room.now]),
                                !.answered_left = Put(room.answered_left, peer_id,
                                                      room.ends_at - room.now)]
                   IN  room' = IF DOMAIN a.answer_submissions = TimedPlayers
                               THEN ScoreQuestion(a, pick) ELSE a
        /\ op' = TimedOperation(room, "submit-answer")
        /\ UNCHANGED sockets
    \* the question timer: its sleep is over (runtime.py 1739-1745)
    \/ \E pick \in {0, 1} :
        /\ room.phase = "question"
        /\ room.timer # NoDeadline /\ room.now >= room.timer
        /\ room' = ScoreQuestion(room, pick)
        /\ op' = TimedOperation(room, "timer")
        /\ UNCHANGED sockets

TimedSpec == TimedInit /\ [][TimedNext]_vars

\* ------------------------------------------------------ the vote of a team
\* One chaos question: peer 1 hosts, peers 2, 3 and 4 are in team A, peer 5 in team
\* B; peer 4 may be a spectator.  The players answer while the clock goes on; the
\* question ends with the last answer or with its deadline.
ChaosPlayers == 2..5
ChaosOptions == 0..2
ChaosSteps == {10000, 20400}
\* selected_index None
NoSelection == -1

\* Every index that got a vote.
AnyVotedIndex(vote_counts) == {i \in ChaosOptions : vote_counts[i] > 0}

\* runtime_question_flow.py 302-305: the indexes with the most votes
ChaosLeaders(vote_counts) ==
    {i \in ChaosOptions : /\ vote_counts[i] > 0
                          /\ \A j \in ChaosOptions : vote_counts[j] <= vote_counts[i]}

\* runtime_question_flow.py 223-336: the result of one team; pick is the draw of
\* _random_item
ChaosTeamResult(r, team, pick) ==
    LET participants == _active_team_players(r, team)
        answered == participants \cap DOMAIN r.answer_submissions
        vote_counts == [i \in ChaosOptions |->
            Cardinality({p \in answered : r.answer_submissions[p].selectedIndex = i})]
        leaders == ChaosLeaders(vote_counts)
        selected_index == IF leaders = {} THEN NoSelection ELSE random_item(leaders, pick)
        is_correct == selected_index = r.correctIndex
        fallback_remaining_ms == Max2(0, r.question_ends_at - r.now)
        latest_answered_at ==
            IF answered = {} THEN NoDeadline
            ELSE LET last == CHOOSE p \in answered : \A q \in answered :
                        r.answer_submissions[q].answeredAt <= r.answer_submissions[p].answeredAt
                 IN  r.answer_submissions[last].answeredAt
        team_remaining_ms == IF latest_answered_at # NoDeadline
                             THEN Max2(0, r.question_ends_at - latest_answered_at)
                             ELSE fallback_remaining_ms
    IN  [selectedIndex |-> selected_index,
         isCorrect |-> is_correct,
         pointsAwarded |-> PointsAwarded(is_correct, team_remaining_ms),
         voteCounts |-> vote_counts,
         tieResolvedRandomly |-> Cardinality(leaders) > 1,
         participantsCount |-> Cardinality(participants),
         answeredCount |-> Cardinality(answered)]

\* runtime_question_flow.py 18-25, 218-369 in chaos
finalize_chaos_question(r, picks) ==
    IF r.phase # "question" THEN r
    ELSE LET results == [t \in Teams |-> ChaosTeamResult(r, t, picks[t])] IN
         [r EXCEPT !.phase = "reveal",
                   !.scores = [t \in Teams |-> r.scores[t] + results[t].pointsAwarded],
                   !.last_reveal = results,
                   !.answer_submissions = EmptyMap]

\* _start_question_phase (runtime.py 2018-2033) of a chaos room
ChaosInit ==
    \E watches \in BOOLEAN, correct_index \in {0, 1} :
        /\ room = [game_mode |-> "chaos", phase |-> "question",
                   players |-> [p \in {1} \cup ChaosPlayers |->
                       [team |-> IF p = 1 THEN NoTeam ELSE IF p = 5 THEN "B" ELSE "A",
                        is_host |-> p = 1,
                        is_spectator |-> p = 4 /\ watches]],
                   now |-> 0, ticks |-> 0, question_ends_at |-> QUESTION_TIME_MS,
                   correctIndex |-> correct_index,
                   answer_submissions |-> EmptyMap,
                   last_reveal |-> EmptyMap,
                   scores |-> [t \in Teams |-> IF t = "A" THEN 2 ELSE 0]]
        /\ sockets = {}
        /\ op = [kind |-> "start-question"]

ChaosNext ==
    \* time passes
    \/ /\ room.phase = "question"
       /\ room.ticks < MaxChaosTicks
       /\ room.now < room.question_ends_at
       /\ \E step \in ChaosSteps :
            room' = [room EXCEPT !.now = room.now + step, !.ticks = room.ticks + 1]
       /\ op' = [kind |-> "clock"]
       /\ UNCHANGED sockets
    \* submit-answer (runtime_message_handlers.py 142-193): the answer is recorded, and
    \* the question ends when every eligible player has answered
    \/ \E p \in ChaosPlayers, selected \in ChaosOptions, picks \in [Teams -> ChaosOptions] :
         LET a == [room EXCEPT !.answer_submissions =
                      Put(room.answer_submissions, p,
                          [selectedIndex |-> selected, answeredAt |-> room.now])]
             eligible == {q \in _active_non_host_players(a) : a.players[q].team \in Teams}
             complete == eligible # {}
                           /\ Cardinality(DOMAIN a.answer_submissions) >= Cardinality(eligible)
         IN  /\ room.phase = "question"
             /\ room.now < room.question_ends_at
             /\ ~room.players[p].is_spectator
             /\ p \notin DOMAIN room.answer_submissions
             /\ ~complete => picks = [t \in Teams |-> 0]
             /\ room' = IF complete THEN finalize_chaos_question(a, picks) ELSE a
             /\ op' = [kind |-> "submit-answer", submitted |-> a.answer_submissions,
                       scores |-> room.scores, finalized |-> complete]
       /\ UNCHANGED sockets
    \* the timer of the question (runtime.py 2030-2033)
    \/ /\ room.phase = "question"
       /\ room.now >= room.question_ends_at
       /\ \E picks \in [Teams -> ChaosOptions] :
            room' = finalize_chaos_question(room, picks)
       /\ op' = [kind |-> "timer", submitted |-> room.answer_submissions,
                 scores |-> room.scores, finalized |-> TRUE]
       /\ UNCHANGED sockets

ChaosSpec == ChaosInit /\ [][ChaosNext]_vars

\* ---------------------------------------------------------------- the chat
\* The chat log and the skip requests of a room whose game is running: peer 1 hosts,
\* peer 2 plays in team A, peer 3 in team B, peer 4 watches.  A message keeps the
\* phase it was sent in; skip_rejected tells that the host has rejected a skip
\* request in the question that is open.

\* runtime_chat_visibility.py 8-45
can_player_see_message(peer_id, r, message) ==
    LET player == r.players[peer_id]
        visibility == message.visibility
        kind == message.kind
    IN  IF kind = "presence" /\ visibility = "all" THEN TRUE
        ELSE IF kind = "skip-request" /\ visibility = "all" THEN TRUE
        ELSE IF visibility = "host" THEN player.is_host \/ player.is_spectator
        ELSE IF r.game_mode = "ffa" /\ r.phase = "question"
        THEN (IF player.is_host \/ player.is_spectator THEN TRUE
              ELSE peer_id \in r.answer_submissions)
        ELSE IF r.phase = "manual-pause" THEN TRUE
        ELSE IF player.is_host \/ player.is_spectator THEN TRUE
        ELSE IF r.game_mode = "ffa" THEN TRUE
        ELSE IF r.game_mode = "chaos" THEN visibility = "all" \/ player.team = visibility
        ELSE IF r.phase = "question"
        THEN (IF player.team # r.active_team THEN FALSE
              ELSE visibility \in {"all", r.active_team})
        ELSE IF visibility = "all" THEN TRUE
        ELSE player.team = visibility

\* room.chat.append(...) and the cut to the last messages (runtime.py 1349-1361,
\* runtime_message_handlers.py 276-287)
ChatAppend(r, from, visibility, kind) ==
    LET chat == Append(r.chat, [from |-> from, visibility |-> visibility, kind |-> kind,
                                sent_in |-> r.phase,
                                id |-> IF kind = "skip-request" THEN r.skip_messages + 1 ELSE 0])
    IN  IF Len(chat) > MaxChat THEN SubSeq(chat, Len(chat) - MaxChat + 1, Len(chat)) ELSE chat

\* runtime_state_sync.py 9-82
upsert_skip_request_host_message(r) ==
    IF r.phase # "question"
    THEN [r EXCEPT !.skip_requesters = {}, !.skip_request_status = "idle",
                   !.skip_request_message_id = 0]
    ELSE
    LET requesters == {p \in PlayerIds(r) : ~r.players[p].is_host /\ p \in r.skip_requesters}
        status == IF r.skip_request_status = "pending" /\ requesters = {} THEN "idle"
                  ELSE r.skip_request_status
        a == [r EXCEPT !.skip_request_status = status]
        tracked(m) == m.id = r.skip_request_message_id
        appended == ChatAppend(a, NoPeer, "all", "skip-request")
    IN  IF status = "idle"
        THEN [a EXCEPT !.chat = IF r.skip_request_message_id # 0
                                THEN SelectSeq(r.chat, LAMBDA m : ~tracked(m)) ELSE r.chat,
                       !.skip_request_message_id = 0]
        ELSE IF r.skip_request_message_id # 0 /\ \E i \in DOMAIN r.chat : tracked(r.chat[i])
        THEN [a EXCEPT !.chat = [i \in DOMAIN r.chat |->
                 IF tracked(r.chat[i])
                 THEN [r.chat[i] EXCEPT !.visibility = "all", !.kind = "skip-request"]
                 ELSE r.chat[i]]]
        ELSE [a EXCEPT !.chat = appended,
                       !.skip_messages = r.skip_messages + 1,
                       !.skip_request_message_id =
                           IF \E i \in DOMAIN appended : appended[i].id = r.skip_messages + 1
                           THEN r.skip_messages + 1 ELSE 0]

ChatInit ==
    \E game_mode \in GAME_MODES :
        /\ room = [game_mode |-> game_mode, phase |-> "question", active_team |-> "A",
                   paused_state |-> NoPause, answer_submissions |-> {}, chat |-> <<>>,
                   skip_requesters |-> {}, skip_request_status |-> "idle",
                   skip_request_message_id |-> 0, skip_messages |-> 0,
                   skip_rejected |-> FALSE,
                   players |-> [p \in 1..4 |->
                       [is_host |-> p = 1, is_spectator |-> p = 4,
                        team |-> IF game_mode = "ffa" THEN NoTeam
                                 ELSE IF p = 2 THEN "A" ELSE IF p = 3 THEN "B" ELSE NoTeam]]]
        /\ sockets = {WebSocket(p, 0) : p \in 1..4}
        /\ op = [kind |-> "start"]

ChatNext ==
    \* send-chat (runtime_message_handlers.py 254-289)
    \/ \E peer_id \in PlayerIds(room) :
        LET player == room.players[peer_id]
            visibility == IF room.phase # "question" \/ room.game_mode \in {"ffa", "chaos"}
                          THEN "all" ELSE room.active_team
        IN  /\ ~player.is_spectator
            /\ room.phase = "question" =>
                IF room.game_mode = "ffa"
                THEN player.is_host \/ player.is_spectator \/ peer_id \in room.answer_submissions
                ELSE IF room.game_mode = "chaos"
                THEN ~(player.is_host \/ player.is_spectator \/ player.team = NoTeam)
                ELSE ~(player.is_host \/ player.is_spectator \/ player.team = NoTeam
                          \/ player.team # room.active_team)
            /\ room' = [room EXCEPT !.chat = ChatAppend(room, peer_id, visibility, "")]
            /\ op' = [kind |-> "send-chat"]
            /\ UNCHANGED sockets
    \* toggle-pause of the host (runtime.py 1390-1445)
    \/ /\ IF room.phase = "manual-pause"
          THEN LET a == [room EXCEPT !.phase = room.paused_state, !.paused_state = NoPause]
               IN  room' = [a EXCEPT !.chat = ChatAppend(a, NoPeer, "all", "pause")]
          ELSE room' = [room EXCEPT !.paused_state = room.phase, !.phase = "manual-pause",
                                    !.chat = ChatAppend(room, NoPeer, "all", "pause")]
       /\ op' = [kind |-> "toggle-pause"]
       /\ UNCHANGED sockets
    \* submit-answer of a player in ffa and chaos (runtime_message_handlers.py 142-193)
    \/ \E peer_id \in {2, 3} :
        /\ room.phase = "question" /\ room.game_mode # "classic"
        /\ peer_id \notin room.answer_submissions
        /\ room' = [room EXCEPT !.answer_submissions = @ \cup {peer_id}]
        /\ op' = [kind |-> "submit-answer"]
        /\ UNCHANGED sockets
    \* the question ends (runtime_question_flow.py 119, 148, 366-367)
    \/ /\ room.phase = "question"
       /\ LET a == [room EXCEPT !.phase = "reveal", !.chat = <<>>, !.skip_messages = 0, !.answer_submissions = {},
                                !.skip_rejected = FALSE]
          IN  room' = IF room.game_mode # "ffa" THEN a
                      ELSE [a EXCEPT !.skip_requesters = {}, !.skip_request_status = "idle",
                                     !.skip_request_message_id = 0]
       /\ op' = [kind |-> "finalize-question"]
       /\ UNCHANGED sockets
    \* the next question begins (runtime_phase_flow.py 74-97)
    \/ /\ room.phase = "reveal"
       /\ room' = [room EXCEPT !.phase = "question", !.chat = <<>>, !.skip_messages = 0, !.answer_submissions = {},
                               !.skip_requesters = {}, !.skip_request_status = "idle",
                               !.skip_request_message_id = 0,
                               !.active_team = IF room.game_mode = "ffa" THEN "A"
                                               ELSE IF room.active_team = "A" THEN "B" ELSE "A"]
       /\ op' = [kind |-> "advance-after-reveal"]
       /\ UNCHANGED sockets
    \* request-skip-question (runtime_message_handlers.py 203-216)
    \/ \E peer_id \in PlayerIds(room) :
        /\ room.phase = "question"
        /\ ~(room.players[peer_id].is_host \/ room.players[peer_id].is_spectator)
        /\ room' = IF room.skip_request_status = "rejected" \/ peer_id \in room.skip_requesters
                   THEN room
                   ELSE upsert_skip_request_host_message(
                            [room EXCEPT !.skip_requesters = @ \cup {peer_id},
                                         !.skip_request_status = "pending"])
        /\ op' = [kind |-> "request-skip-question", rejected |-> room.skip_rejected,
                  requesters |-> room.skip_requesters]
        /\ UNCHANGED sockets
    \* resolve-skip-request of the host (runtime_message_handlers.py 218-237);
    \* approve skips the question (runtime_question_flow.py 372-463)
    \/ \E decision \in {"approve", "reject"} :
        /\ room.phase = "question"
        /\ room.skip_request_status = "pending"
        /\ decision = "approve" => room.skip_requesters # {}
        /\ room' = IF decision = "reject"
                   THEN upsert_skip_request_host_message(
                            [room EXCEPT !.skip_request_status = "rejected",
                                         !.skip_rejected = TRUE])
                   ELSE [room EXCEPT !.chat = <<>>, !.skip_messages = 0, !.answer_submissions = {},
                                     !.skip_requesters = {}, !.skip_request_status = "idle",
                                     !.skip_request_message_id = 0, !.skip_rejected = FALSE,
                                     !.phase = IF room.game_mode = "ffa" THEN "question"
                                               ELSE "reveal"]
        /\ op' = [kind |-> "resolve-skip-request"]
        /\ UNCHANGED sockets
    \* the websocket of a player ends (runtime.py 885-900)
    \/ \E peer_id \in {2, 3} \cap PlayerIds(room) :
        /\ WebSocket(peer_id, 0) \in sockets
        /\ LET a == [room EXCEPT
                        !.players = [p \in PlayerIds(room) \ {peer_id} |-> room.players[p]],
                        !.answer_submissions = @ \ {peer_id}]
               b == [a EXCEPT !.skip_requesters = @ \ {peer_id},
                              !.skip_request_status =
                                  IF a.skip_requesters \ {peer_id} = {} /\ @ = "pending"
                                  THEN "idle" ELSE @]
           IN  room' = IF peer_id \in room.skip_requesters
                       THEN upsert_skip_request_host_message(b) ELSE a
        /\ sockets' = sockets \ {WebSocket(peer_id, 0)}
        /\ op' = [kind |-> "disconnect"]

ChatSpec == ChatInit /\ [][ChatNext]_vars

\* The moderation of the chat: peer 1 hosts, peers 2 and 3 play (in classic and chaos
\* in teams A and B, in classic as their captains); the host deletes messages.
\* runtime.py 1447-1469 (the room has no ballots, and no team-naming phase)
_apply_disqualification(r, offender) ==
    LET old_team == r.players[offender].team
        a == [r EXCEPT !.answer_submissions = @ \ {offender}]
        b == IF r.game_mode = "classic" /\ old_team # NoTeam /\ a.captains[old_team] = offender
             THEN [a EXCEPT !.captains[old_team] = NoPeer]
             ELSE a
        c == IF offender \in b.skip_requesters
             THEN upsert_skip_request_host_message(
                    [b EXCEPT !.skip_requesters = @ \ {offender},
                              !.skip_request_status =
                                  IF b.skip_requesters \ {offender} = {} /\ @ = "pending"
                                  THEN "idle" ELSE @])
             ELSE b
    IN  [c EXCEPT !.players[offender].is_spectator = TRUE,
                  !.players[offender].team = NoTeam]

\* runtime.py 1471-1560: the host deletes the message at target_index
_moderate_chat_message(r, target_index) ==
    LET message == r.chat[target_index]
        sender_peer_id == message.from
        a == [r EXCEPT
                !.chat = SubSeq(r.chat, 1, target_index - 1)
                            \o SubSeq(r.chat, target_index + 1, Len(r.chat)),
                !.skip_request_message_id =
                    IF message.id # 0 /\ @ = message.id THEN 0 ELSE @]
        strikes == r.chat_moderation_strikes[sender_peer_id] + 1
        b == [a EXCEPT !.chat_moderation_strikes[sender_peer_id] = strikes]
        d == _apply_disqualification(b, sender_peer_id)
        c == IF strikes >= CHAT_BAN_STRIKES_TO_DISQUALIFY
             THEN [d EXCEPT !.chat = ChatAppend(d, NoPeer, "all", "moderation")]
             ELSE b
        eligible_players ==
            {p \in PlayerIds(c) : /\ ~c.players[p].is_host /\ ~c.players[p].is_spectator
                                  /\ (c.game_mode = "chaos" => c.players[p].team \in Teams)}
    IN  IF sender_peer_id = NoPeer \/ message.kind = "skip-request" THEN r
        ELSE IF sender_peer_id \notin PlayerIds(r) \/ r.players[sender_peer_id].is_host THEN a
        ELSE IF /\ c.phase = "question" /\ c.game_mode \in {"ffa", "chaos"}
                /\ eligible_players # {}
                /\ Cardinality(c.answer_submissions) >= Cardinality(eligible_players)
        THEN LET f == [c EXCEPT !.phase = "reveal", !.chat = <<>>, !.skip_messages = 0,
                                !.answer_submissions = {}, !.skip_rejected = FALSE]
             IN  IF c.game_mode # "ffa" THEN f
                 ELSE [f EXCEPT !.skip_requesters = {}, !.skip_request_status = "idle",
                                !.skip_request_message_id = 0]
        ELSE c

ModerationInit ==
    \E game_mode \in GAME_MODES :
        /\ room = [game_mode |-> game_mode, phase |-> "question", active_team |-> "A",
                   paused_state |-> NoPause, answer_submissions |-> {}, chat |-> <<>>,
                   skip_requesters |-> {}, skip_request_status |-> "idle",
                   skip_request_message_id |-> 0, skip_messages |-> 0,
                   skip_rejected |-> FALSE,
                   chat_moderation_strikes |-> [p \in 1..3 |-> 0],
                   captains |-> [t \in Teams |->
                       IF game_mode # "classic" THEN NoPeer ELSE IF t = "A" THEN 2 ELSE 3],
                   players |-> [p \in 1..3 |->
                       [is_host |-> p = 1, is_spectator |-> FALSE,
                        team |-> IF game_mode = "ffa" \/ p = 1 THEN NoTeam
                                 ELSE IF p = 2 THEN "A" ELSE "B"]]]
        /\ sockets = {WebSocket(p, 0) : p \in 1..3}
        /\ op = [kind |-> "start"]

ModerationNext ==
    \* send-chat (runtime_message_handlers.py 254-289)
    \/ \E peer_id \in PlayerIds(room) :
        LET player == room.players[peer_id]
            visibility == IF room.phase # "question" \/ room.game_mode \in {"ffa", "chaos"}
                          THEN "all" ELSE room.active_team
        IN  /\ ~player.is_spectator
            /\ room.phase = "question" =>
                IF room.game_mode = "ffa"
                THEN player.is_host \/ player.is_spectator \/ peer_id \in room.answer_submissions
                ELSE IF room.game_mode = "chaos"
                THEN ~(player.is_host \/ player.is_spectator \/ player.team = NoTeam)
                ELSE ~(player.is_host \/ player.is_spectator \/ player.team = NoTeam
                          \/ player.team # room.active_team)
            /\ room' = [room EXCEPT !.chat = ChatAppend(room, peer_id, visibility, "")]
            /\ op' = [kind |-> "send-chat"]
            /\ UNCHANGED sockets
    \* submit-answer of a player in ffa and chaos (runtime_message_handlers.py 142-193)
    \/ \E peer_id \in {2, 3} :
        /\ room.phase = "question" /\ room.game_mode # "classic"
        /\ ~room.players[peer_id].is_spectator
        /\ peer_id \notin room.answer_submissions
        /\ LET a == [room EXCEPT !.answer_submissions = @ \cup {peer_id}]
               f == [a EXCEPT !.phase = "reveal", !.chat = <<>>, !.skip_messages = 0,
                              !.answer_submissions = {}, !.skip_rejected = FALSE]
           IN  room' = IF a.answer_submissions # {p \in {2, 3} : ~a.players[p].is_spectator}
                       THEN a
                       ELSE IF a.game_mode # "ffa" THEN f
                       ELSE [f EXCEPT !.skip_requesters = {}, !.skip_request_status = "idle",
                                      !.skip_request_message_id = 0]
        /\ op' = [kind |-> "submit-answer"]
        /\ UNCHANGED sockets
    \* request-skip-question (runtime_message_handlers.py 203-216)
    \/ \E peer_id \in {2, 3} :
        /\ room.phase = "question"
        /\ ~room.players[peer_id].is_spectator
        /\ room.skip_request_status # "rejected" /\ peer_id \notin room.skip_requesters
        /\ room' = upsert_skip_request_host_message(
                        [room EXCEPT !.skip_requesters = @ \cup {peer_id},
                                     !.skip_request_status = "pending"])
        /\ op' = [kind |-> "request-skip-question"]
        /\ UNCHANGED sockets
    \* moderate-chat-message of the host (runtime_message_handlers.py 245-252)
    \/ \E target_index \in DOMAIN room.chat :
        /\ room' = _moderate_chat_message(room, target_index)
        /\ op' = LET offender == room.chat[target_index].from
                     counted == /\ offender \in PlayerIds(room)
                                /\ ~room.players[offender].is_host
                                /\ room.chat[target_index].kind # "skip-request"
                     strikes == IF counted THEN room.chat_moderation_strikes[offender] + 1
                                ELSE 0
                 IN  [kind |-> "moderate-chat-message", offender |-> offender,
                      strikes |-> strikes,
                      notices |-> IF ~counted THEN {}
                                  ELSE {[to |-> offender, strikes |-> strikes,
                                         disqualified |->
                                            strikes >= CHAT_BAN_STRIKES_TO_DISQUALIFY]}]
        /\ UNCHANGED sockets

ModerationSpec == ModerationInit /\ [][ModerationNext]_vars

\* ------------------------------------------------------------------ claims
\* C1: in every reachable state no two entries of room.players carry the same
\* non-null identity_key.
C1_IdentityKeysUnique ==
    \A p, q \in PlayerIds(room) :
        (p # q /\ room.players[p].identity_key # NoIdentity)
            => room.players[p].identity_key # room.players[q].identity_key

\* C2: a join that matches a seat of the same role closes the old websocket and
\* binds the same peer id and the same player token to the new one, the number of
\* seats stays as it was; and the disconnect of the old websocket afterwards
\* removes no seat, bumps no version and broadcasts nothing.
C2_HandoffKeepsSeat ==
    /\ op.kind = "handoff" =>
        /\ op.peer \in PlayerIds(room)
        /\ op.closed # NoSocket
        /\ op.closed # op.socket
        /\ \A p \in PlayerIds(room) : room.players[p].websocket # op.closed
        /\ room.players[op.peer].websocket = op.socket
        /\ room.players[op.peer].player_token = op.token
        /\ op.token # NoToken => room.player_tokens[op.token] = op.peer
        /\ room.players[op.peer].is_host = op.host
        /\ Cardinality(PlayerIds(room)) = op.count
    /\ op.kind = "stale-disconnect" =>
        /\ Cardinality(PlayerIds(room)) = op.count
        /\ room.state_version = op.version
        /\ room.broadcasts = <<>>
        /\ room.phase = op.phase

\* the old websocket of a seat that was handed off has ended, and the seat is there
C2_StaleDisconnectSeen ==
    /\ op.kind = "stale-disconnect"
    /\ op.peer \in PlayerIds(room)
    /\ room.players[op.peer].websocket # op.socket

Hosts(r) == {p \in PlayerIds(r) : r.players[p].is_host}

\* C3 as stated: whenever the room has a connection, exactly one connection is host.
C3_ExactlyOneHost ==
    PlayerIds(room) # {} => Cardinality(Hosts(room)) = 1

\* C4: in every reachable state with phase = question the host has no team.
C4_HostHasNoTeamInQuestion ==
    room.phase = "question" =>
        \A p \in Hosts(room) : room.players[p].team = NoTeam

C6_RevealOnlyWhenAllEligibleSubmitted ==
    (room.game_mode \in {"ffa", "chaos"} /\ op.phase = "question" /\ room.phase = "reveal")
        => \/ op.kind = "timer"
           \/ op.kind = "skip-question"
           \/ (room.finalized.done /\ room.finalized.eligible \subseteq room.finalized.submitted)

\* C7: every broadcast of an operation carries a state_version strictly greater
\* than the broadcast before it.
C7_BroadcastVersionsIncrease ==
    \A i \in 1..Len(room.broadcasts) :
        room.broadcasts[i] >
            (IF i = 1 THEN room.last_broadcast ELSE room.broadcasts[i - 1])

\* C8: the state-sync frames sent to one connection carry non-decreasing
\* stateVersion.
C8_FramesNonDecreasing ==
    \A p \in Peers : \A i \in 1..Len(room.frames[p]) :
        room.frames[p][i] >=
            (IF i = 1 THEN room.last_frame[p] ELSE room.frames[p][i - 1])

\* a connection is sent the version it was sent before
C8_SameVersionAgain ==
    \E p \in PlayerIds(room) :
        /\ room.frames[p] # <<>>
        /\ room.last_frame[p] > 0
        /\ room.frames[p][1] = room.last_frame[p]

PhaseTimerKeys == TimerKeys \ {"captainAuto"}

PhaseTimerKey(phase) ==
    IF phase = "team-reveal" THEN "teamReveal"
    ELSE IF phase = "captain-vote" THEN "captainVote"
    ELSE IF phase = "team-naming" THEN "teamNaming"
    ELSE IF phase = "question" THEN "question"
    ELSE IF phase = "reveal" THEN "reveal"
    ELSE IF phase = "host-reconnect" THEN "hostReconnect"
    ELSE "none"

\* C9: at the end of every operation on a room that has a connection: in a phase
\* with a deadline exactly one timer is pending under the key of the phase and none
\* under the key of another phase; in lobby, results and manual-pause no phase
\* timer is pending.
C9_OnePhaseTimer ==
    PlayerIds(room) # {} =>
        \A key \in PhaseTimerKeys :
            Cardinality(PendingTasks(room, key)) =
                (IF key = PhaseTimerKey(room.phase) THEN 1 ELSE 0)

\* C10: the timer task that runs its callback is the task its key holds at that
\* moment (a cancelled task never runs, whether it slept or waited for the lock),
\* and it was armed in the current occurrence of the phase.
C10_OnlyTheArmedTimerRuns ==
    op.kind = "timer" =>
        /\ op.ref = op.task.stamp
        /\ op.task.stamp = op.seq

\* a question timer that waited for room.lock was cancelled by the pause
C10_CancelledWhileWaiting ==
    /\ op.kind \in {"disconnect", "toggle-pause"}
    /\ op.phase = "question"
    /\ "question" \in op.waiting
    /\ room.phase \in {"host-reconnect", "manual-pause"}
    /\ room.tasks = PendingTasks(room, "hostReconnect")

\* C11: admission, message handlers, timer callbacks and cleanup exclude one another:
\* an operation on the room runs in the task that holds room.lock, and until that
\* task gives the lock up no operation of another task runs.
OperationKinds ==
    {"fresh", "handoff", "disconnect", "stale-disconnect", "evicted-disconnect",
     "toggle-pause", "start-game", "vote-captain", "set-team-name", "submit-answer",
     "skip-question", "new-game", "timer"}

C11_OperationsExclusive ==
    /\ op.kind \in OperationKinds =>
        /\ ~op.holder.ran
        /\ op.holder.kind =
              (IF op.kind \in {"fresh", "handoff"} THEN "join"
               ELSE IF op.kind \in {"disconnect", "stale-disconnect", "evicted-disconnect"}
               THEN "cleanup"
               ELSE IF op.kind = "timer" THEN "timer"
               ELSE "message")
        /\ op.holder.id =
              (IF op.kind \in {"fresh", "handoff"} THEN NoSocket
               ELSE IF op.kind = "timer" THEN TimerId(op.task)
               ELSE op.socket)
    /\ (room.lock # NoHolder /\ room.lock.ran) =>
        /\ op.holder.kind = room.lock.kind
        /\ op.holder.id = room.lock.id

\* a message handler is in its operation while a timer task, its sleep over, waits
\* for the lock
C11_TimerWaitsForHandler ==
    /\ room.lock.kind = "message"
    /\ room.lock.ran
    /\ \E t \in room.tasks : t.st = "waiting"

\* C12: when a question is finalized, an answer other than the correct one gets 0
\* points and a correct one gets 1 plus the speed bonus of the time that was left of
\* the question when the answer was submitted (2 from 67% of 30000 ms, 1 from 34%,
\* else 0): the player's own submission in ffa, the latest submission of the team in
\* chaos, the captain's in classic; the points are added to the player's score in
\* ffa and to the team's score in classic and chaos.
C12_PointsFromTimeLeftAtSubmission ==
    (room.phase = "reveal" /\ room.timed = "question") =>
        /\ \A x \in room.last_reveal :
            LET left == Max2(0, room.answered_left[x.by])
                bonus == IF 100 * left >= 67 * 30000 THEN 2
                         ELSE IF 100 * left >= 34 * 30000 THEN 1 ELSE 0
            IN  /\ x.pointsAwarded = IF x.selectedIndex # room.correctIndex THEN 0 ELSE 1 + bonus
                /\ IF room.game_mode = "ffa"
                   THEN room.player_scores[x.by] = x.pointsAwarded
                   ELSE room.scores["A"] = x.pointsAwarded
        /\ room.last_reveal = {} => room.scores["A"] = 0
        /\ \A p \in TimedPlayers :
            (\A x \in room.last_reveal : x.by # p) => room.player_scores[p] = 0


\* C15 as stated: a pause taken with r ms left of the phase records exactly r, and
\* lifting the pause re-arms the deadline and the timer of the phase exactly r ms
\* ahead, for every r >= 0.
C15_ResumesWithExactRemainder ==
    /\ op.kind = "pause" => room.paused_state = Max2(0, op.left)
    /\ op.kind = "resume" =>
        /\ room.ends_at - room.now = op.remaining
        /\ room.timer - room.now = op.remaining

\* C15: a pause taken with r ms left of the phase records exactly r, and lifting the
\* pause re-arms the deadline and the timer of the phase r ms ahead when r >= 120 and
\* 120 ms ahead when r < 120.
C15_ResumesWithRemainderOrFloor ==
    /\ op.kind = "pause" => room.paused_state = Max2(0, op.left)
    /\ op.kind = "resume" =>
        /\ room.phase = room.timed
        /\ room.ends_at - room.now = (IF op.remaining >= 120 THEN op.remaining ELSE 120)
        /\ room.timer = room.ends_at

C15_ResumedBelowFloor ==
    /\ op.kind = "resume"
    /\ op.remaining = 60
    /\ room.now > 30000
    /\ room.ends_at = room.now + 120

C16_OnlyTheSameIdentityReclaims ==
    (op.kind \in {"fresh", "handoff"} /\ op.phase = "host-reconnect") =>
        IF room.players[op.peer].is_host
              /\ room.players[op.peer].identity_key = op.host_identity
        THEN TRUE
        ELSE room.phase = "host-reconnect" /\ ~room.players[op.peer].is_host

C18_RejectedUntilTheQuestionEnds ==
    (op.kind = "request-skip-question" /\ op.rejected) =>
        /\ room.skip_request_status = "rejected"
        /\ room.skip_requesters = op.requesters

\* C19: a join rejected with an admission error leaves the players, the token map, the
\* host, the phase, the timers and the state version of the room as they were and
\* sends no frame to a connection of the room; the rejected websocket gets exactly
\* one error frame, with the code of the rejection, and is closed with 1008.
C19_RejectedJoinChangesNothing ==
    [][(op'.close_code = 1008 /\ op' # op) =>
          /\ op'.kind \in {"ROOM_FULL", "HOST_TOKEN_INVALID", "ROOM_PASSWORD_REQUIRED",
                           "ROOM_PASSWORD_INVALID", "ACCOUNT_ALREADY_IN_ROOM"}
          /\ room'.players = room.players
          /\ room'.player_tokens = room.player_tokens
          /\ room'.host_peer_id = room.host_peer_id
          /\ room'.phase = room.phase
          /\ room'.timers = room.timers
          /\ room'.tasks = room.tasks
          /\ room'.state_version = room.state_version
          /\ \A p \in Peers : room'.frames[p] = <<>>
          /\ sockets' = sockets
          /\ op'.sent = <<[type |-> "error", code |-> op'.kind]>>
          /\ op'.close_code = 1008]_vars

C19_RejectedWhilePlaying ==
    /\ op.close_code = 1008
    /\ op.sent # <<>>
    /\ Cardinality(PlayerIds(room)) >= 2
    /\ room.phase # "lobby"
    /\ room.tasks # {}

\* C20: when the last connection of a room has ended and the room has left the
\* registry, a snapshot store holds the state of the room with its final state
\* version, however recently the stores were written before.
C20_FinalStateIsStored ==
    (op.kind = "last-disconnect" /\ ~room.in_registry) =>
        \/ room.db_state_version = room.state_version
        \/ room.redis_state_version = room.state_version

\* A whole classic game: the host and one player per team stay connected from the
\* lobby to the results; the captains answer or let the timer run, and the host may
\* skip a question.
PassBounds ==
    [version |-> MaxPassVersion, peers |-> 0, host_tokens |-> {""},
     player_tokens |-> {NoToken}, identity_keys |-> {NoIdentity}, handoffs |-> 0]

PassInit ==
    /\ room = Admitted("classic", 3)
    /\ sockets = {WebSocket(p, 0) : p \in 1..3}
    /\ op = Operation(Admitted("classic", 2), "fresh", 3, WebSocket(3, 0),
                      NoSocket, NoTaskRecord)

PassNext ==
    \/ StartGame(PassBounds)
    \/ SetTeamName(PassBounds)
    \/ SubmitAnswer(PassBounds)
    \/ SkipQuestion(PassBounds)
    \/ TimerWake
    \/ TimerRun(PassBounds)

PassSpec == PassInit /\ [][PassNext]_vars

\* The load of a stored room with its scores.  The room is what the process held when
\* it stopped: the phase, the question index, the players, the scores, the pause
\* context, the armed timers and the two hashes.  The next process finds no room of
\* that id in its registry and makes one of the stored snapshot.
LoadPhases ==
    {"lobby", "team-reveal", "captain-vote", "team-naming", "question", "reveal",
     "results", "host-reconnect", "manual-pause"}

\* runtime_snapshot.py 237-296
serialize_room_snapshot_state(r) ==
    [gameMode |-> r.game_mode,
     phase |-> r.phase,
     currentQuestionIndex |-> r.current_question_index,
     hostTokenHash |-> r.host_token_hash,
     roomPasswordHash |-> r.room_password_hash,
     pausedState |-> r.paused_state,
     scores |-> r.scores,
     playerScores |-> r.player_scores,
     players |-> r.players]

\* runtime_snapshot.py 34-234: the players of the snapshot are not read
apply_room_snapshot_state(r, state) ==
    [r EXCEPT
        !.game_mode = state.gameMode,
        !.phase = IF state.phase \in LoadPhases THEN state.phase ELSE r.phase,
        !.current_question_index = state.currentQuestionIndex,
        !.host_token_hash = IF state.hostTokenHash # "" THEN state.hostTokenHash
                            ELSE r.host_token_hash,
        !.room_password_hash = IF state.roomPasswordHash # "" THEN state.roomPasswordHash
                               ELSE r.room_password_hash,
        !.paused_state = state.pausedState,
        !.scores = state.scores,
        !.player_scores = state.playerScores]

\* A load that keeps the room as the snapshot gave it.
KeepLoaded(r) == r

\* runtime.py 2137-2169
EmptyLobby(r) ==
    [r EXCEPT
        !.timers = {},
        !.phase = "lobby",
        !.current_question_index = -1,
        !.paused_state = NoPause,
        !.scores = [t \in Teams |-> 0],
        !.player_scores = EmptyMap,
        !.players = {},
        !.host_peer_id = NoPeer]

\* runtime.py 1070-1095, as _load_room calls it: the room of a request
CreatedRoom(game_mode, host_peer_id) ==
    [game_mode |-> game_mode, phase |-> "lobby", current_question_index |-> -1,
     players |-> {}, host_peer_id |-> host_peer_id,
     host_token_hash |-> "", room_password_hash |-> "",
     paused_state |-> NoPause, timers |-> {},
     scores |-> [t \in Teams |-> 0], player_scores |-> EmptyMap]

LoadInit ==
    \E game_mode \in GAME_MODES, phase \in LoadPhases, index \in 0..1,
       a \in 0..1, b \in 0..1, points \in 0..1, paused \in {"question", "reveal"},
       room_password_hash \in {"", "password-hash"} :
        LET playing == phase # "lobby"
            in_pause == phase \in {"host-reconnect", "manual-pause"}
        IN  /\ phase \in {"team-reveal", "captain-vote", "team-naming"}
                  => game_mode = "classic" /\ index = 0 /\ a = 0 /\ b = 0 /\ points = 0
            /\ ~playing => index = 0 /\ a = 0 /\ b = 0 /\ points = 0
            /\ game_mode = "ffa" => a = 0 /\ b = 0
            /\ game_mode # "ffa" => points = 0
            /\ ~in_pause => paused = "question"
            /\ room = [game_mode |-> game_mode, phase |-> phase,
                       current_question_index |-> IF playing THEN index ELSE -1,
                       players |-> {1, 2, 3}, host_peer_id |-> 1,
                       host_token_hash |-> "host-hash",
                       room_password_hash |-> room_password_hash,
                       paused_state |-> IF in_pause THEN paused ELSE NoPause,
                       timers |-> IF phase = "host-reconnect" THEN {"hostReconnect"}
                                  ELSE IF phase \in {"lobby", "results", "manual-pause"}
                                  THEN {} ELSE {phase},
                       scores |-> [t \in Teams |-> IF t = "A" THEN a ELSE b],
                       player_scores |-> IF game_mode = "ffa"
                                         THEN [p \in {2, 3} |-> IF p = 2 THEN points ELSE 0]
                                         ELSE EmptyMap]
            /\ sockets = {WebSocket(p, 0) : p \in {1, 2, 3}}
            /\ op = [kind |-> "start"]

\* runtime.py 1008-1068: _get_or_create_room of the first request after the restart
LoadNext ==
    \E game_mode \in GAME_MODES, host_peer_id \in {NoPeer, 1} :
        LET state == serialize_room_snapshot_state(room)
            loaded == apply_room_snapshot_state(CreatedRoom(game_mode, host_peer_id), state)
        IN  /\ op.kind = "start"
            /\ room' = IF loaded.phase # "lobby" THEN EmptyLobby(loaded) ELSE loaded
            /\ sockets' = {}
            /\ op' = [kind |-> "load-room", snapshot |-> state]

LoadSpec == LoadInit /\ [][LoadNext]_vars

\* The room whose host is gone and does not come back: nobody joins, connections end,
\* the host may have started the game, and the timers run.  A timer is a task of the
\* event loop (runtime.py 1739-1745): a sleep that is over ends, and a callback that
\* is ready runs, so both steps are taken when they stay possible.
PromoteBounds ==
    [version |-> MaxPromoteVersion, peers |-> 0, host_tokens |-> {""},
     player_tokens |-> {NoToken}, identity_keys |-> {NoIdentity}, handoffs |-> 0]

PromoteNext ==
    \/ Disconnect(PromoteBounds)
    \/ StartGame(PromoteBounds)
    \/ TimerWake
    \/ TimerRun(PromoteBounds)

PromoteSpec ==
    /\ ClosedInit /\ [][PromoteNext]_vars
    /\ WF_vars(TimerWake) /\ WF_vars(TimerRun(PromoteBounds))

\* ------------------------------------------ the timer task that cancels itself
\* A question and its reveal in a room of three connections, with the task of the
\* event loop that runs each piece of code.  room.timers[key] is the task of
\* _schedule_timer's runner: it sleeps, then takes room.lock and runs the callback.
\* The callback is run piece by piece: the part up to the first await is one step,
\* each send of _broadcast_state is one, and _persist_room is one.  Whether an await
\* really suspends (a send under back-pressure or on a closing transport, a write
\* to a store that is due) is up to the event loop and the clock.
CancelPeers == <<1, 2, 3>>

CancelKeys == {"question", "reveal"}

NoRunner == "none"

\* _cancel_timer (runtime.py 1711-1715) with asyncio's Task.cancel: a sleeping runner
\* is woken with CancelledError and returns (1740-1743); on the task that is running
\* the call sets the flag that throws CancelledError at its next suspension.
cancel_timer_task(r, key) ==
    [r EXCEPT !.timers[key] = "none",
              !.must_cancel = @ \/ r.timers[key] = "running"]

\* _schedule_timer (runtime.py 1729-1747)
schedule_timer_task(r, key) ==
    [cancel_timer_task(r, key) EXCEPT !.timers[key] = "sleeping"]

\* _broadcast_and_persist up to its first await (runtime.py 1264-1267, 1289-1297)
broadcast_and_persist_task(r) ==
    [r EXCEPT !.state_version = @ + 1,
              !.pc = "send",
              !.to_send = CancelPeers]

\* finalize_question up to its first await (runtime_question_flow.py 18-25, 366-369)
finalize_question_task(r) ==
    IF r.phase # "question" THEN r
    ELSE LET c == cancel_timer_task(r, "question")
         IN  broadcast_and_persist_task(
                schedule_timer_task([c EXCEPT !.phase = "reveal"], "reveal"))

\* advance_after_reveal and _start_question_phase up to the first await
\* (runtime_phase_flow.py 16-30, runtime.py 2018-2033)
advance_after_reveal_task(r) ==
    IF r.phase # "reveal" THEN r
    ELSE LET c == cancel_timer_task(r, "reveal")
         IN  IF c.current_question_index >= MaxCancelQuestions - 1
             THEN broadcast_and_persist_task([c EXCEPT !.phase = "results"])
             ELSE broadcast_and_persist_task(
                    schedule_timer_task(
                        [c EXCEPT !.phase = "question",
                                  !.current_question_index = @ + 1], "question"))

\* the end of the code that holds room.lock: by return or by CancelledError, which
\* leaves the async with block of the runner and so releases the lock
release_room_lock(r, cancelled) ==
    [r EXCEPT !.runner = NoRunner,
              !.pc = "idle",
              !.to_send = <<>>,
              !.must_cancel = FALSE,
              !.last = [task |-> r.runner, version |-> r.state_version,
                        cancelled |-> cancelled]]

CancelInit ==
    /\ room = [phase |-> "question",
               current_question_index |-> 0,
               timers |-> [key \in CancelKeys |->
                              IF key = "question" THEN "sleeping" ELSE "none"],
               runner |-> NoRunner,
               must_cancel |-> FALSE,
               pc |-> "idle",
               to_send |-> <<>>,
               state_version |-> 1,
               received |-> [p \in 1..Len(CancelPeers) |-> 1],
               persist_called |-> 1,
               stored |-> 1,
               last |-> [task |-> NoRunner, version |-> 1, cancelled |-> FALSE]]
    /\ sockets = {}
    /\ op = [kind |-> "init"]

CancelNext ==
    \/ \* the sleep of a timer is over: its task takes room.lock and runs the callback
       \E key \in CancelKeys :
            /\ room.runner = NoRunner
            /\ room.timers[key] = "sleeping"
            /\ LET r == [room EXCEPT !.runner = key, !.timers[key] = "running"]
               IN  room' = IF key = "question" THEN finalize_question_task(r)
                           ELSE advance_after_reveal_task(r)
            /\ op' = [kind |-> "timer-callback", key |-> key]
            /\ UNCHANGED sockets
    \/ \* the answer that completes the question: the task of the connection ends the
       \* question while the timer sleeps
       /\ room.runner = NoRunner
       /\ room.phase = "question"
       /\ room' = finalize_question_task([room EXCEPT !.runner = "message"])
       /\ op' = [kind |-> "submit-answer"]
       /\ UNCHANGED sockets
    \/ \* _send_safe for the next connection: CancelledError is no Exception, so the
       \* except clause lets it through
       \E suspends \in BOOLEAN, written \in BOOLEAN :
            /\ room.pc = "send"
            /\ LET p == Head(room.to_send)
                   thrown == suspends /\ room.must_cancel
                   sent == [room EXCEPT !.received[p] = room.state_version,
                                        !.to_send = Tail(@),
                                        !.pc = IF Tail(room.to_send) = <<>>
                                               THEN "persist" ELSE "send"]
               IN  /\ ~thrown => written
                   /\ room' = IF thrown
                              THEN release_room_lock(
                                     [room EXCEPT !.received[p] =
                                         IF written THEN room.state_version ELSE @],
                                     TRUE)
                              ELSE sent
                   /\ op' = [kind |-> "send", peer |-> p, thrown |-> thrown]
            /\ UNCHANGED sockets
    \/ \* _persist_room: a write that is due awaits the store
       \E due \in BOOLEAN :
            /\ room.pc = "persist"
            /\ LET thrown == due /\ room.must_cancel
                   called == [room EXCEPT !.persist_called = room.state_version,
                                          !.stored = IF due /\ ~thrown
                                                     THEN room.state_version ELSE @]
               IN  /\ room' = release_room_lock(called, thrown)
                   /\ op' = [kind |-> "persist", due |-> due, thrown |-> thrown]
            /\ UNCHANGED sockets

CancelSpec == CancelInit /\ [][CancelNext]_vars

\* The run of a game that nobody disturbs: the host starts it and the two players
\* leave it all to the timers: nobody votes, names a team or answers, and nobody
\* disconnects, pauses or resets.  The sleep of a timer ends and its callback gets
\* room.lock (runtime.py 1739-1745), so both steps are taken when they stay possible.
RunBounds ==
    [version |-> MaxRunVersion, peers |-> 0, host_tokens |-> {""},
     player_tokens |-> {NoToken}, identity_keys |-> {NoIdentity}, handoffs |-> 0]

RunInit ==
    \E game_mode \in GAME_MODES :
        /\ room = Admitted(game_mode, 3)
        /\ sockets = {WebSocket(p, 0) : p \in 1..3}
        /\ op = Operation(Admitted(game_mode, 2), "fresh", 3, WebSocket(3, 0),
                          NoSocket, NoTaskRecord)

RunNext ==
    \/ StartGame(RunBounds)
    \/ TimerWake
    \/ TimerRun(RunBounds)

RunSpec ==
    /\ RunInit /\ [][RunNext]_vars
    /\ WF_vars(TimerWake) /\ WF_vars(TimerRun(RunBounds))

\* The host's skip in a free-for-all game: peer 1 hosts, peers 2 and 3 play and peer 4
\* watches. The room keeps what the skip and the question's end write: the phase, the
\* question index, the submissions, the reveal record, the history of the questions
\* and the skippedAnswers counter of every player's statistics.
SkipPlayers == {2, 3, 4}

record_player_skip_stat(player_stats, p) ==
    [player_stats EXCEPT ![p] = @ + 1]

ActiveSkipPlayers(r) ==
    {p \in SkipPlayers : ~r.players[p].is_host /\ ~r.players[p].is_spectator}

\* finalize_question, game_mode ffa: a participant without a submission gets a
\* skipped answer, the question goes to the history and the reveal is shown
_finalize_question(r) ==
    IF r.phase # "question" \/ r.current_question_index < 0 THEN r
    ELSE [r EXCEPT
            !.player_stats =
                [p \in SkipPlayers |->
                    IF p \in ActiveSkipPlayers(r) /\ p \notin r.answer_submissions
                    THEN record_player_skip_stat(r.player_stats, p)[p]
                    ELSE r.player_stats[p]],
            !.question_history = Append(@, "answered"),
            !.phase = "reveal",
            !.question_timer = FALSE,
            !.reveal_timer = TRUE,
            !.answer_submissions = {},
            !.last_reveal = "answered"]

\* skip_question_by_host, game_mode ffa: the history gets an entry with the
\* participants' status skipped_by_host; no statistic is written
_skip_question_by_host(r) ==
    IF r.phase # "question" \/ r.current_question_index < 0 THEN r
    ELSE LET k == [r EXCEPT !.question_history = Append(@, "skippedByHost"),
                            !.question_timer = FALSE,
                            !.answer_submissions = {},
                            !.last_reveal = "none"]
         IN  IF k.current_question_index >= k.question_count - 1
             THEN [k EXCEPT !.phase = "results"]
             ELSE [k EXCEPT !.current_question_index = @ + 1,
                            !.phase = "question",
                            !.question_timer = TRUE]

\* advance_after_reveal, game_mode ffa
_advance_after_reveal(r) ==
    IF r.phase # "reveal" THEN r
    ELSE LET c == [r EXCEPT !.reveal_timer = FALSE] IN
         IF c.current_question_index >= c.question_count - 1
         THEN [c EXCEPT !.phase = "results", !.answer_submissions = {}]
         ELSE [c EXCEPT !.current_question_index = @ + 1,
                        !.last_reveal = "none",
                        !.answer_submissions = {},
                        !.phase = "question",
                        !.question_timer = TRUE]

SkipInit ==
    /\ room = [game_mode |-> "ffa", phase |-> "question",
               current_question_index |-> 0, question_count |-> QuestionCount,
               players |-> [p \in {1} \cup SkipPlayers |->
                              [is_host |-> p = 1, is_spectator |-> p = 4]],
               answer_submissions |-> {},
               last_reveal |-> "none",
               question_history |-> <<>>,
               question_timer |-> TRUE, reveal_timer |-> FALSE,
               player_stats |-> [p \in SkipPlayers |-> 0]]
    /\ sockets = {WebSocket(p, 0) : p \in {1} \cup SkipPlayers}
    /\ op = [kind |-> "start", peer |-> 1]

SkipNext ==
    \* submit-answer (runtime_message_handlers.py 142-193)
    \/ \E peer_id \in SkipPlayers :
        /\ room.phase = "question"
        /\ peer_id \in ActiveSkipPlayers(room)
        /\ peer_id \notin room.answer_submissions
        /\ LET a == [room EXCEPT !.answer_submissions = @ \cup {peer_id}]
           IN  room' = IF a.answer_submissions = ActiveSkipPlayers(a)
                       THEN _finalize_question(a) ELSE a
        /\ op' = [kind |-> "submit-answer", peer |-> peer_id]
        /\ UNCHANGED sockets
    \* the question timer ends the question
    \/ /\ room.phase = "question" /\ room.question_timer
       /\ room' = _finalize_question(room)
       /\ op' = [kind |-> "timer", peer |-> 1]
       /\ UNCHANGED sockets
    \* the reveal timer moves on
    \/ /\ room.phase = "reveal" /\ room.reveal_timer
       /\ room' = _advance_after_reveal(room)
       /\ op' = [kind |-> "timer", peer |-> 1]
       /\ UNCHANGED sockets
    \* skip-question (runtime_message_handlers.py 195-201): the host only, in the
    \* question phase only; any other sender or phase returns before a change
    \/ \E peer_id \in {1} \cup SkipPlayers :
        /\ room' = IF room.players[peer_id].is_host /\ room.phase = "question"
                   THEN _skip_question_by_host(room) ELSE room
        /\ op' = [kind |-> "skip-question", peer |-> peer_id]
        /\ UNCHANGED sockets

SkipSpec == SkipInit /\ [][SkipNext]_vars

\* C21: once the last connection of a room has ended and the room has left the
\* registry, that room instance has no timer left and none of its timer callbacks
\* runs, and no later join takes a seat in it (a join loads the room from its
\* snapshot instead).
C21_EvictedInstanceStaysIdle ==
    room.evicted =>
        /\ room.tasks = {}
        /\ \A k \in TimerKeys : room.timers[k] = NoTask
        /\ op.kind # "timer"
        /\ PlayerIds(room) = {}

\* C22: a connection that is not the host and is a spectator of a game in progress
\* (it was admitted in a live phase) is, as long as that game goes on, never among
\* the eligible submitters, and no answer of it is recorded.
C22_SpectatorNeverAnswers ==
    [][\A p \in Peers :
         (/\ p \in PlayerIds(room) /\ p \in PlayerIds(room')
          /\ ~room.players[p].is_host /\ room.players[p].is_spectator
          /\ room.phase \notin {"lobby", "results"}
          /\ room'.phase \notin {"lobby", "results"})
         => /\ room'.players[p].is_host \/ room'.players[p].is_spectator
            /\ room'.players[p].team = NoTeam
            /\ p \notin _answer_eligible_players(room')
            /\ room'.recorded # p]_vars

\* C23: when the host has deleted the third chat message of a connected player U
\* who is not the host, U is a spectator without a team and captain of no team, has
\* no recorded answer and is in no skip request, a moderation notice with
\* disqualified = true went to U's socket and to no other, and the chat log holds a
\* system message for everybody that announces the disqualification.
C23_ThirdDeletionDisqualifies ==
    (op.kind = "moderate-chat-message" /\ op.strikes = CHAT_BAN_STRIKES_TO_DISQUALIFY) =>
        LET U == op.offender IN
        /\ room.players[U].is_spectator
        /\ room.players[U].team = NoTeam
        /\ \A t \in Teams : room.captains[t] # U
        /\ U \notin room.answer_submissions
        /\ U \notin room.skip_requesters
        /\ op.notices = {[to |-> U, strikes |-> op.strikes, disqualified |-> TRUE]}
        /\ \E i \in DOMAIN room.chat :
              /\ room.chat[i].kind = "moderation"
              /\ room.chat[i].from = NoPeer
              /\ room.chat[i].visibility = "all"

\* C24: in a free-for-all game, when the host sends skip-question during a question
\* that is not the last one, the next state is the question phase of the next
\* question, with no reveal phase and no reveal record, and the skippedAnswers
\* counter of every player who is neither host nor spectator has grown by one.
C24_FfaSkipGoesToNextQuestion ==
    [][(/\ op'.kind = "skip-question"
        /\ room.players[op'.peer].is_host
        /\ room.game_mode = "ffa"
        /\ room.phase = "question"
        /\ room.current_question_index < room.question_count - 1)
       => /\ room'.phase = "question"
          /\ room'.current_question_index = room.current_question_index + 1
          /\ room'.last_reveal = "none"
          /\ room'.question_history[Len(room'.question_history)] = "skippedByHost"
          /\ \A p \in ActiveSkipPlayers(room) :
                room'.player_stats[p] = room.player_stats[p] + 1]_vars

\* C25: in a classic game, in every state whose phase is team-naming, question or
\* reveal, or a pause entered from one of them, both captain slots are filled.
C25_BothCaptainsWhilePlaying ==
    (/\ room.game_mode = "classic"
     /\ \/ room.phase \in {"team-naming", "question", "reveal"}
        \/ /\ room.phase \in {"manual-pause", "host-reconnect"}
           /\ room.paused_state \in {"team-naming", "question", "reveal"})
    => \A t \in Teams : room.captains[t] # NoPeer

\* C26: when the host's connection ends while other connections remain and the phase
\* is lobby, team-reveal, captain-vote, team-naming, question or reveal, the cleanup
\* leaves the room, in every game mode, in the phase host-reconnect with
\* paused_state holding the phase that was left, every phase timer cancelled and the
\* hostReconnect timer armed.
C26_HostDisconnectPauses ==
    (/\ op.kind = "disconnect" /\ op.host /\ op.count > 1
     /\ should_pause_on_host_disconnect(op.phase))
    => /\ room.phase = "host-reconnect"
       /\ room.paused_state = op.phase
       /\ \A k \in TimerKeys \ {"hostReconnect"} : room.timers[k] = NoTask
       /\ room.timers["hostReconnect"] # NoTask

\* C27: when the host's connection has ended in a phase that is paused for it, while
\* other connections remained, and no host comes back, then, the timers being run,
\* the room eventually has a host among the remaining connections and has left the
\* pause (or every connection has ended, or the room has reached the last version
\* explored); and the timer that ends the pause leaves the room in the phase that
\* was paused, with a host who is no spectator.
C27_HostIsReplacedAndPhaseResumes ==
    /\ [][(/\ op'.kind = "timer" /\ op'.task.key = "hostReconnect"
            /\ room.phase = "host-reconnect" /\ room'.phase # "host-reconnect")
           => /\ room'.phase = room.paused_state
              /\ \E p \in PlayerIds(room') :
                    room'.players[p].is_host /\ ~room'.players[p].is_spectator]_vars
    /\ (/\ op.kind = "disconnect" /\ op.host /\ op.count > 1
         /\ should_pause_on_host_disconnect(op.phase))
        ~> \/ /\ room.phase # "host-reconnect"
              /\ \E p \in PlayerIds(room) : room.players[p].is_host
           \/ PlayerIds(room) = {}
           \/ ~Live(PromoteBounds)

\* C28: a new-game frame resets the room to the lobby only when the host sends it in
\* the results phase; sent in any other phase it changes nothing: the phase, the
\* question index, the timers and the state version stay as they were.
C28_NewGameOnlyFromResults ==
    [][(op'.kind = "new-game" /\ op' # op) =>
         IF room.phase = "results" /\ room.players[op'.peer].is_host
         THEN room'.phase = "lobby" /\ room'.current_question_index = -1
         ELSE /\ room'.phase = room.phase
              /\ room'.current_question_index = room.current_question_index
              /\ room'.timers = room.timers
              /\ room'.tasks = room.tasks
              /\ room'.state_version = room.state_version]_vars

\* C29: a room loaded from a snapshot whose phase is not lobby starts as an empty
\* lobby: phase lobby, no players, no host peer id, question index -1, team and
\* player scores zero, no pause context and no timers; its host-token hash and its
\* password hash are the ones stored in the snapshot.
C29_LoadedRoomIsEmptyLobby ==
    (op.kind = "load-room" /\ op.snapshot.phase # "lobby") =>
        /\ room.phase = "lobby"
        /\ room.players = {}
        /\ room.host_peer_id = NoPeer
        /\ room.current_question_index = -1
        /\ \A t \in Teams : room.scores[t] = 0
        /\ \A p \in DOMAIN room.player_scores : room.player_scores[p] = 0
        /\ room.paused_state = NoPause
        /\ room.timers = {}
        /\ room.host_token_hash = op.snapshot.hostTokenHash
        /\ room.room_password_hash = op.snapshot.roomPasswordHash

C29_LoadedFromRunningGame ==
    /\ op.kind = "load-room"
    /\ op.snapshot.phase = "host-reconnect"
    /\ op.snapshot.pausedState = "reveal"
    /\ op.snapshot.scores["A"] = 1
    /\ op.snapshot.currentQuestionIndex = 1
    /\ op.snapshot.roomPasswordHash = "password-hash"
    /\ room.phase = "lobby"

\* C30: in a classic game a question index is played with team A first and then
\* with team B at the same index.  The end of a reveal that no host skip made goes
\* from team A to the same question for team B, and from team B to the next index
\* with team A, or to the results after the last question; the end of a reveal
\* made by a host skip goes to the next index with team A, or to the results after
\* the last question, whichever team was active.  The game begins with question 0
\* for team A, and nothing else changes the index or the active team of a running
\* game.
C30_ClassicTwoPass ==
    [][(room.game_mode = "classic" /\ room'.phase # "lobby") =>
        LET last == room.current_question_index >= room.question_count - 1
            skipped == room.last_reveal = "skippedByHost"
            same == /\ room'.current_question_index = room.current_question_index
                    /\ room'.active_team = room.active_team
            ends == room.phase = "reveal" /\ room'.phase # "reveal" /\ op'.kind = "timer"
            begins == /\ room.current_question_index = -1
                      /\ room'.current_question_index = 0
                      /\ room'.active_team = "A"
                      /\ room'.phase = "question"
        IN  /\ ~ends => same \/ begins
            /\ (ends /\ room'.phase = "question") =>
                  IF ~skipped /\ room.active_team = "A"
                  THEN /\ room'.current_question_index = room.current_question_index
                       /\ room'.active_team = "B"
                  ELSE /\ ~last
                       /\ room'.current_question_index = room.current_question_index + 1
                       /\ room'.active_team = "A"
            /\ (ends /\ room'.phase = "results") =>
                  /\ last /\ same
                  /\ skipped \/ room.active_team = "B"
            /\ ends => room'.phase \in {"question", "results"}]_vars

C30_ResultsAfterTeamBOfLastQuestion ==
    /\ room.game_mode = "classic" /\ op.kind = "timer" /\ op.phase = "reveal"
    /\ room.phase = "results"
    /\ room.current_question_index = room.question_count - 1
    /\ room.active_team = "B"
    /\ room.last_reveal # "skippedByHost"
\* C31: every call of _persist_room attempts the durable write exactly when it is
\* forced or DB_ROOM_SNAPSHOT_INTERVAL_MS have passed since the last durable write
\* that succeeded, and then attempts no hot write of its own; a durable write that
\* succeeds stores the current state and sets both write times to now; one that
\* fails leaves both write times, the stored versions and the room as they were, and
\* the next call attempts the durable write again.  Without a durable attempt the
\* hot write is attempted exactly when the cache is connected and the write is
\* forced or REDIS_HOT_SNAPSHOT_INTERVAL_MS have passed since the last hot write.
C31_PersistWritePolicy ==
    [][op'.kind \in StorePersistKinds =>
        LET due_db == op'.force_db
                        \/ room.now - room.last_db_snapshot_ms >= DB_ROOM_SNAPSHOT_INTERVAL_MS
            due_redis == /\ ~due_db
                         /\ room.redis_connected
                         /\ \/ op'.force_redis
                            \/ room.now - room.last_redis_snapshot_ms
                                  >= REDIS_HOT_SNAPSHOT_INTERVAL_MS
            kept == op'.kind \in {"message", "handoff"}
            same_times == /\ room'.last_db_snapshot_ms = room.last_db_snapshot_ms
                          /\ room'.last_redis_snapshot_ms = room.last_redis_snapshot_ms
        IN  /\ room'.last_call.db = due_db
            /\ room'.last_call.redis = due_redis
            /\ room'.last_call.db_failed = (due_db /\ ~op'.db_ok)
            /\ (due_db /\ op'.db_ok) =>
                  /\ room'.db_state_version = room'.state_version
                  /\ kept => /\ room'.last_db_snapshot_ms = room.now
                             /\ room'.last_redis_snapshot_ms = room.now
            /\ (due_db /\ ~op'.db_ok) =>
                  /\ room'.db_state_version = room.db_state_version
                  /\ room'.redis_state_version = room.redis_state_version
                  /\ room'.now = room.now
                  /\ kept => /\ same_times
                             /\ room'.players = room.players
                             /\ room'.state_version
                                  = room.state_version
                                      + (IF op'.kind = "message" THEN 1 ELSE 0)
            /\ due_redis =>
                  /\ room'.db_state_version = room.db_state_version
                  /\ kept => /\ room'.last_redis_snapshot_ms = room.now
                             /\ room'.last_db_snapshot_ms = room.last_db_snapshot_ms
            /\ (~due_db /\ ~due_redis) =>
                  /\ room'.db_state_version = room.db_state_version
                  /\ room'.redis_state_version = room.redis_state_version
                  /\ kept => same_times
            /\ room.last_call.db_failed => room'.last_call.db]_vars

\* a durable write that succeeds in the call after one that failed
C31_DurableWriteAfterFailure ==
    /\ op.kind = "message"
    /\ op.prev_failed
    /\ op.db_ok
    /\ ~op.force_db
    /\ room.last_call.db
    /\ room.db_state_version = room.state_version
    /\ room.last_db_snapshot_ms = room.now

C33_OtherTeamSeesNoOptions ==
    \A viewer \in PlayerIds(room) :
        LET v == room.players[viewer]
            turn_open == \/ room.phase = "question"
                         \/ /\ room.phase \in {"host-reconnect", "manual-pause"}
                            /\ room.paused_state = "question"
        IN  ( /\ room.game_mode = "classic"
              /\ turn_open
              /\ ~v.is_host
              /\ ~v.is_spectator
              /\ v.team # room.active_team )
            => build_question_for_viewer(room, viewer) = <<>>

\* C34: a join whose hostToken does not hash to the stored host-token hash of the
\* room is never bound to a seat with is_host = TRUE: where no client has the host
\* token, no admitted join, fresh or handed over, sits on the host seat.
C34_HostSeatNeedsHostToken ==
    (op.kind \in {"fresh", "handoff"} /\ op.peer \in PlayerIds(room))
        => ~room.players[op.peer].is_host

\* C35: no task holds the registry mutex while it holds or waits for a room mutex,
\* no task that holds a room mutex waits for the registry mutex, and whenever a
\* task waits for a mutex the holder of that mutex waits for none: the two levels
\* of locks cannot deadlock.
C35_TwoLockLevelsNeverNest ==
    \A task \in LockTasks :
        /\ "rooms_lock" \in HeldMutexes(room, task) =>
              /\ "room.lock" \notin HeldMutexes(room, task)
              /\ WaitsFor(room, task) # "room.lock"
        /\ "room.lock" \in HeldMutexes(room, task) => WaitsFor(room, task) # "rooms_lock"
        /\ WaitsFor(room, task) # "none" =>
              WaitsFor(room, room.holder[WaitsFor(room, task)]) = "none"

\* the last websocket handler waits for the registry mutex to evict the room while
\* another task holds it
C35_EvictionWaitsForRegistry ==
    /\ op.kind \in {"acquire", "release", "cleanup"}
    /\ \E task \in {"websocket 1", "websocket 2"} :
          /\ task \in room.evicting
          /\ WaitsFor(room, task) = "rooms_lock"
          /\ HeldMutexes(room, task) = {}
          /\ room.holder["room.lock"] # NoLockTask

\* C36: when a chaos question is finalized, the answer recorded for a team is an
\* option with the most votes among the answers of the team's active members, and
\* none when no active member answered; tieResolvedRandomly is true exactly when
\* more than one option has that most; and the score of the team grows by the
\* points of that answer and by nothing else: nothing for a wrong or missing answer.
C36_TeamAnswerIsAPlurality ==
    (op.kind \in {"submit-answer", "timer"} /\ op.finalized) =>
        \A team \in Teams :
            LET members == {p \in ChaosPlayers : /\ room.players[p].team = team
                                                 /\ ~room.players[p].is_spectator}
                votes(i) == Cardinality({p \in members \cap DOMAIN op.submitted :
                                            op.submitted[p].selectedIndex = i})
                most == {i \in ChaosOptions :
                            votes(i) > 0 /\ \A j \in ChaosOptions : votes(j) <= votes(i)}
                result == room.last_reveal[team]
            IN  /\ most = {} => result.selectedIndex = NoSelection
                /\ most # {} => result.selectedIndex \in most
                /\ result.tieResolvedRandomly = (Cardinality(most) > 1)
                /\ room.scores[team] = op.scores[team] + result.pointsAwarded
                /\ result.selectedIndex # room.correctIndex => result.pointsAwarded = 0
                /\ result.selectedIndex = room.correctIndex =>
                      result.pointsAwarded \in BASE_CORRECT_POINTS..(BASE_CORRECT_POINTS + 2)

\* team A was split two ways, with one vote for each of two options and the third
\* member watching, and the draw took the correct option
C36_TieDrawnForTheCorrectOption ==
    /\ op.kind \in {"submit-answer", "timer"}
    /\ op.finalized
    /\ room.players[4].is_spectator
    /\ room.last_reveal["A"].tieResolvedRandomly
    /\ room.last_reveal["A"].selectedIndex = room.correctIndex
    /\ room.last_reveal["A"].answeredCount = 2
    /\ room.scores["A"] > op.scores["A"]
    /\ room.last_reveal["B"].selectedIndex = NoSelection

\* C37: every connection that was admitted and not yet cleaned up sits in the room
\* instance that the registry holds: no join takes a seat in an instance that was
\* evicted, so that an evicted instance and the one loaded after it never both
\* have connections.
C37_SeatsOnlyInTheRegisteredInstance ==
    \A peer \in PlayerIds(room) :
        room.players[peer].websocket \in sockets => ~room.evicted

\* C38: in classic and chaos, while the phase is team-reveal, captain-vote,
\* team-naming, question or reveal, each of the teams A and B has a member who is
\* neither host nor spectator: an operation that would take the last such member
\* of a team away puts the room back in the lobby.
C38_BothTeamsHaveAMember ==
    ( /\ room.game_mode \in {"classic", "chaos"}
      /\ _is_manual_pause_allowed_phase(room.phase) )
    => \A team \in Teams : _active_team_players(room, team) # {}

\* C39: once the game is started, with timers that fire and nobody disconnecting,
\* pausing or resetting, the room reaches the results phase in every game mode,
\* also when no player votes, names a team or answers; on the way the question
\* index never decreases, and in the question and reveal phases it is within
\* 0..question_count - 1.
C39_StartedGameReachesResults ==
    /\ [](room.phase \in {"question", "reveal"} =>
            room.current_question_index \in 0..(room.question_count - 1))
    /\ [][room'.current_question_index >= room.current_question_index]_vars
    /\ (room.phase # "lobby") ~> (room.phase = "results")

\* the results of a game in which no player did anything
C39_ResultsByTimersAlone ==
    /\ room.phase = "results"
    /\ op.kind = "timer"
    /\ op.task.key = "reveal"
    /\ room.current_question_index = room.question_count - 1
    /\ room.state_version = op.version + 1
    /\ room.answer_submissions = {}

\* C40: a timer callback that cancels the key it runs under is not aborted at its
\* next suspension: when it has changed the phase and releases room.lock, every
\* connection has been sent the new state and _persist_room has been called with it.
C40_SelfCancellingCallbackFinishes ==
    ( /\ room.runner = NoRunner
      /\ room.last.task \in CancelKeys )
    => /\ ~room.last.cancelled
       /\ \A p \in 1..Len(CancelPeers) : room.received[p] = room.state_version
       /\ room.persist_called = room.state_version

====
